---- MODULE Spec2Model ----
(***************************************************************************)
(* libdeadmock: the matcher engine (src/matcher), the mapping model        *)
(* (src/config) and the request handler (src/server/handler.rs).           *)
(*                                                                         *)
(* Option<T> is a sequence of length at most one: None is <<>> and         *)
(* Some(x) is <<x>>.  A header is a pair <<name, value>>.  A response body *)
(* is a string.                                                            *)
(***************************************************************************)
EXTENDS Integers, Sequences, FiniteSets, TLC

None == <<>>
Some(x) == <<x>>
IsSome(o) == o # <<>>
Unwrap(o) == o[1]

(***************************************************************************)
(* Bounds of the model.                                                    *)
(***************************************************************************)
\* largest number of mappings in the store
MaxMappings == 2
\* largest number of header entries on a request
MaxHeaders == 2

(***************************************************************************)
(* Text: header names and their lower-case form (http::HeaderName keeps    *)
(* names in lower case), validity of header names and values, regexes.     *)
(***************************************************************************)
\* str::to_lowercase on the names and literals of the model
to_lowercase(s) ==
    CASE s = "X-A" -> "x-a"
      [] s = "X-B" -> "x-b"
      [] s = "Content-Type" -> "content-type"
      [] s = "Bad Name" -> "bad name"
      [] OTHER -> s

\* HeaderName::from_bytes succeeds on tokens only (no space, not empty)
ValidHeaderName(k) == k \notin {"Bad Name", "bad name", ""}

\* HeaderValue::from_bytes rejects control characters
ValidHeaderValue(v) == v \notin {"bad\nvalue"}

\* Regex::new succeeds
RegexCompiles(p) == p \notin {"(", "*"}

\* Regex::is_match of the regex compiled from source p on text s
RegexIsMatch(p, s) ==
    <<p, s>> \in { <<"^/a$", "/a">>,
                   <<"^/.*$", "/a">>, <<"^/.*$", "/b">>,
                   <<"^(PUT|POST|PATCH)$", "POST">>,
                   <<"^x-.*$", "x-a">>, <<"^x-.*$", "x-b">>,
                   <<"^v$", "v">>,
                   <<"^[vV]$", "v">>, <<"^[vV]$", "V">> }

(***************************************************************************)
(* matcher/mod.rs: header tuples.                                          *)
(***************************************************************************)
\* to_header_tuple: Some(<<HeaderName, HeaderValue>>), or None on an error
to_header_tuple(header) ==
    IF ValidHeaderName(header[1]) /\ ValidHeaderValue(header[2])
    THEN Some(<<to_lowercase(header[1]), header[2]>>)
    ELSE None

equal_headers(actual, expected) == actual = expected

(***************************************************************************)
(* The process-wide regex caches (cached_key_result!, UnboundCache): only  *)
(* an Ok result is stored, and a stored entry is returned without          *)
(* compiling.  A cache is a set of pairs <<key, source of the stored       *)
(* regex>>.  c.url is the cache of matcher/url.rs, c.header the cache of   *)
(* matcher/header.rs, c.method the cache of the method pattern matcher.    *)
(***************************************************************************)
EmptyCaches == [url |-> {}, header |-> {}, method |-> {}]

Cached(cache, key) == \E e \in cache : e[1] = key
CachedRegex(cache, key) == (CHOOSE e \in cache : e[1] = key)[2]

\* cached_key_result!: look the key up, else compute and store an Ok
cached_key_result(cache, key, source) ==
    IF Cached(cache, key)
    THEN [regex |-> Some(CachedRegex(cache, key)), cache |-> cache]
    ELSE IF RegexCompiles(source)
         THEN [regex |-> Some(source), cache |-> cache \cup {<<key, source>>}]
         ELSE [regex |-> None, cache |-> cache]

\* matcher/url.rs generate_regex: Key = { path.to_string() }
generate_regex_url(cache, path, url_pattern) ==
    cached_key_result(cache, path, url_pattern)

\* matcher/header.rs generate_regex: Key = { header_pattern.to_string() }
generate_regex_header(cache, header_pattern) ==
    cached_key_result(cache, header_pattern, header_pattern)

\* the method pattern matcher's regex cache, keyed by the pattern string
generate_regex_method(cache, method_pattern) ==
    cached_key_result(cache, method_pattern, method_pattern)

(***************************************************************************)
(* The predicates (trait RequestMatch).  Each takes the request, the       *)
(* mapping's request config and the caches, and gives                      *)
(* [ok, val, c]: ok is FALSE for Err, val is the Option<bool>, c the       *)
(* caches after the call.                                                  *)
(***************************************************************************)
Result(val, c) == [ok |-> TRUE, val |-> val, c |-> c]

\* matcher/url.rs ExactMatch::is_match
ExactMatchUrl(request, request_config, c) ==
    IF IsSome(request_config.url)
    THEN Result(Some(request.uri.path = Unwrap(request_config.url)), c)
    ELSE Result(None, c)

\* matcher/url.rs PatternMatch::is_match
PatternMatchUrl(request, request_config, c) ==
    IF IsSome(request_config.url_pattern)
    THEN LET path == request.uri.path
             g == generate_regex_url(c.url, path, Unwrap(request_config.url_pattern))
             c2 == [c EXCEPT !.url = g.cache]
         IN  IF IsSome(g.regex)
             THEN Result(Some(RegexIsMatch(Unwrap(g.regex), path)), c2)
             ELSE Result(Some(FALSE), c2)
    ELSE Result(None, c)

\* str::eq_ignore_ascii_case on the methods of the model
eq_ignore_ascii_case(a, b) ==
    a = b \/ {a, b} \in {{"GET", "get"}, {"POST", "post"}}

ExactMatchMethod_ignore_case(request, request_config, c) ==
    IF IsSome(request_config.method)
    THEN Result(Some(eq_ignore_ascii_case(request.method, Unwrap(request_config.method))), c)
    ELSE Result(None, c)

\* matcher/method.rs ExactMatch::is_match
ExactMatchMethod(request, request_config, c) ==
    IF IsSome(request_config.method)
    THEN Result(Some(request.method = Unwrap(request_config.method)), c)
    ELSE Result(None, c)

\* the method pattern matcher (matcher::method::PatternMatch)
PatternMatchMethod(request, request_config, c) ==
    IF IsSome(request_config.method_pattern)
    THEN LET g == generate_regex_method(c.method, Unwrap(request_config.method_pattern))
             c2 == [c EXCEPT !.method = g.cache]
         IN  IF IsSome(g.regex)
             THEN Result(Some(RegexIsMatch(Unwrap(g.regex), request.method)), c2)
             ELSE Result(Some(FALSE), c2)
    ELSE Result(None, c)

\* the number of entries of the request's headers equal to `expected`
CountEqual(headers, expected) ==
    Cardinality({i \in 1..Len(headers) : equal_headers(headers[i], expected)})

\* ExactMatch::is_match of matcher/header.rs with `>= 1` for `== 1`
ExactMatchHeader_any(request, request_config, c) ==
    IF IsSome(request_config.header)
    THEN LET t == to_header_tuple(Unwrap(request_config.header))
         IN  IF IsSome(t)
             THEN Result(Some(CountEqual(request.headers, Unwrap(t)) >= 1), c)
             ELSE Result(Some(FALSE), c)
    ELSE Result(None, c)

\* matcher/header.rs ExactMatch::is_match
ExactMatchHeader(request, request_config, c) ==
    IF IsSome(request_config.header)
    THEN LET t == to_header_tuple(Unwrap(request_config.header))
         IN  IF IsSome(t)
             THEN Result(Some(CountEqual(request.headers, Unwrap(t)) = 1), c)
             ELSE Result(Some(FALSE), c)
    ELSE Result(None, c)

\* is_match_either comparing a literal side exactly whatever the side
is_match_either_exact(actual, either, case_insensitive, cache) ==
    IF IsSome(either.left)
    THEN [b |-> actual = Unwrap(either.left), cache |-> cache]
    ELSE IF IsSome(either.right)
         THEN LET g == generate_regex_header(cache, Unwrap(either.right))
              IN  [b |-> IF IsSome(g.regex)
                         THEN RegexIsMatch(Unwrap(g.regex), actual)
                         ELSE FALSE,
                   cache |-> g.cache]
         ELSE [b |-> FALSE, cache |-> cache]

\* matcher/header.rs PatternMatch::is_match_either: [b, cache]
is_match_either(actual, either, case_insensitive, cache) ==
    IF IsSome(either.left)
    THEN [b |-> IF case_insensitive
                THEN actual = to_lowercase(Unwrap(either.left))
                ELSE actual = Unwrap(either.left),
          cache |-> cache]
    ELSE IF IsSome(either.right)
         THEN LET g == generate_regex_header(cache, Unwrap(either.right))
              IN  [b |-> IF IsSome(g.regex)
                         THEN RegexIsMatch(Unwrap(g.regex), actual)
                         ELSE FALSE,
                   cache |-> g.cache]
         ELSE [b |-> FALSE, cache |-> cache]

\* matcher/header.rs PatternMatch::is_header_match (&& evaluates the value
\* side only when the key side matched)
is_header_match(actual, expected, cache) ==
    LET k == is_match_either(actual[1], expected.key, TRUE, cache)
    IN  IF k.b
        THEN is_match_either(actual[2], expected.value, FALSE, k.cache)
        ELSE [b |-> FALSE, cache |-> k.cache]

\* the matched_header vector of PatternMatch::is_match: [n, cache] after
\* headers i..Len(headers)
RECURSIVE matched_header(_, _, _, _)
matched_header(headers, i, expected, cache) ==
    IF i > Len(headers)
    THEN [n |-> 0, cache |-> cache]
    ELSE LET m == is_header_match(headers[i], expected, cache)
             rest == matched_header(headers, i + 1, expected, m.cache)
         IN  [n |-> rest.n + (IF m.b THEN 1 ELSE 0), cache |-> rest.cache]

\* matcher/header.rs PatternMatch::is_match
PatternMatchHeader(request, request_config, c) ==
    IF IsSome(request_config.header_pattern)
    THEN LET m == matched_header(request.headers, 1,
                                 Unwrap(request_config.header_pattern), c.header)
         IN  Result(Some(m.n = 1), [c EXCEPT !.header = m.cache])
    ELSE Result(None, c)

\* matcher/headers.rs ExactMatch::actual_has_match: Option<bool>
actual_has_match(request, header) ==
    LET t == to_header_tuple(header)
    IN  IF IsSome(t)
        THEN Some(\E i \in 1..Len(request.headers) :
                      equal_headers(request.headers[i], Unwrap(t)))
        ELSE None

\* matcher/headers.rs ExactMatch::is_match (filter_map drops the None of a
\* configured header that is no valid header, all() is over the rest)
ExactMatchHeaders(request, request_config, c) ==
    IF request_config.headers = <<>>
    THEN Result(None, c)
    ELSE Result(Some(\A i \in 1..Len(request_config.headers) :
                         LET r == actual_has_match(request, request_config.headers[i])
                         IN  IsSome(r) => Unwrap(r)), c)

\* matcher/headers.rs PatternMatch::is_match ("Not Implemented!!")
PatternMatchHeaders(request, request_config, c) ==
    IF request_config.headers = <<>>
    THEN Result(None, c)
    ELSE Result(None, c)

(***************************************************************************)
(* matcher/mod.rs: Enabled, Matcher.                                       *)
(***************************************************************************)
Flags == {"EXACT_URL", "EXACT_METHOD", "EXACT_HEADERS", "EXACT_HEADER",
          "PATTERN_URL", "PATTERN_HEADER", "PATTERN_METHOD", "PATTERN_HEADERS"}

\* Enabled::exact()
exact == {"EXACT_URL", "EXACT_METHOD", "EXACT_HEADER", "EXACT_HEADERS"}

\* Enabled::pattern()
pattern == {"PATTERN_URL", "PATTERN_METHOD", "PATTERN_HEADER", "PATTERN_HEADERS"}

\* the order in which Matcher::new pushes the enabled matchers
MatcherOrder == <<"EXACT_URL", "PATTERN_URL", "EXACT_METHOD", "PATTERN_METHOD",
                  "EXACT_HEADER", "PATTERN_HEADER", "EXACT_HEADERS", "PATTERN_HEADERS">>

\* a matcher vector holding every predicate whatever the Enabled set
Matcher_new_all(enabled) == MatcherOrder

\* Matcher::new: the matchers vector
Matcher_new(enabled) ==
    LET Contains(f) == f \in enabled
    IN  SelectSeq(MatcherOrder, Contains)

\* dyn RequestMatch::is_match of the matcher pushed for `flag`
RequestMatch_is_match(flag, request, request_config, c) ==
    CASE flag = "EXACT_URL" -> ExactMatchUrl(request, request_config, c)
      [] flag = "PATTERN_URL" -> PatternMatchUrl(request, request_config, c)
      [] flag = "EXACT_METHOD" -> ExactMatchMethod(request, request_config, c)
      [] flag = "PATTERN_METHOD" -> PatternMatchMethod(request, request_config, c)
      [] flag = "EXACT_HEADER" -> ExactMatchHeader(request, request_config, c)
      [] flag = "PATTERN_HEADER" -> PatternMatchHeader(request, request_config, c)
      [] flag = "EXACT_HEADERS" -> ExactMatchHeaders(request, request_config, c)
      [] flag = "PATTERN_HEADERS" -> PatternMatchHeaders(request, request_config, c)

\* one step of the map() of Matcher::is_match: the result r of the matcher
\* pushed for `flag` is added to acc = [results, c]
map_step(acc, flag, r) ==
    [results |-> Append(acc.results, [flag |-> flag, ok |-> r.ok, val |-> r.val]),
     c |-> r.c]

\* the map() of Matcher::is_match from matcher i on: every matcher's result,
\* in order, the caches threaded through: acc = [results, c],
\* results[i] = [flag, ok, val]
RECURSIVE map_matchers(_, _, _, _, _)
map_matchers(matchers, i, request, request_config, acc) ==
    IF i > Len(matchers)
    THEN acc
    ELSE map_matchers(matchers, i + 1, request, request_config,
                      map_step(acc, matchers[i],
                               RequestMatch_is_match(matchers[i], request,
                                                     request_config, acc.c)))

\* the two filter_map()s of Matcher::is_match: the Vec<bool> `matches`
collect_matches(results) ==
    LET Kept(r) == r.ok /\ IsSome(r.val)
        kept == SelectSeq(results, Kept)
    IN  [i \in 1..Len(kept) |-> Unwrap(kept[i].val)]

\* the final test of Matcher::is_match without `!matches.is_empty()`
is_selected_vacuous(matches) ==
    \A i \in 1..Len(matches) : matches[i]

\* the final test of Matcher::is_match on the Vec<bool>
is_selected(matches) ==
    LET all_true == \A i \in 1..Len(matches) : matches[i]
    IN  matches # <<>> /\ all_true

\* the outcome of Matcher::is_match from the mapped results m = [results, c]
is_match_outcome(m) ==
    [selected |-> is_selected(collect_matches(m.results)),
     results |-> m.results,
     c |-> m.c]

\* Matcher::is_match: [selected, results, c]; selected stands for
\* Some(mapping.clone())
Matcher_is_match(matchers, request, mapping, c) ==
    is_match_outcome(map_matchers(matchers, 1, request, mapping.request,
                                  [results |-> <<>>, c |-> c]))

\* one step of the filter_map() of Matcher::get_match: the outcome e of
\* is_match on a mapping is added to acc = [evals, c]
filter_map_step(acc, e) ==
    [evals |-> Append(acc.evals, [selected |-> e.selected, results |-> e.results]),
     c |-> e.c]

\* the filter_map() of Matcher::get_match over the store in its iteration
\* order, from mapping i on: acc = [evals, c], evals[i] the outcome of
\* is_match on the i-th mapping
RECURSIVE filter_map_mappings(_, _, _, _, _)
filter_map_mappings(matchers, request, mappings, i, acc) ==
    IF i > Len(mappings)
    THEN acc
    ELSE filter_map_mappings(matchers, request, mappings, i + 1,
                             filter_map_step(acc,
                                 Matcher_is_match(matchers, request, mappings[i],
                                                  acc.c)))

\* impl Ord for Mapping: cmp is on priority alone
Mapping_lt(m1, m2) == m1.priority < m2.priority

\* the first selected mapping of the iteration, whatever its priority
min_first(mappings, evals) ==
    LET sel == {i \in 1..Len(mappings) : evals[i].selected}
    IN  IF sel = {}
        THEN None
        ELSE Some(CHOOSE i \in sel : \A j \in sel : i <= j)

\* Iterator::min over the selected mappings: the first of the least ones,
\* as an index into the store; None when nothing was selected
min(mappings, evals) ==
    LET sel == {i \in 1..Len(mappings) : evals[i].selected}
    IN  IF sel = {}
        THEN None
        ELSE Some(CHOOSE i \in sel :
                    \A j \in sel : /\ ~Mapping_lt(mappings[j], mappings[i])
                                   /\ (j < i => Mapping_lt(mappings[i], mappings[j])))

\* the .min().ok_or_else(MappingNotFound) of Matcher::get_match on the
\* filtered store f = [evals, c]
min_of(mappings, f) ==
    [found |-> min(mappings, f.evals), evals |-> f.evals, c |-> f.c]

\* Matcher::get_match: [found, evals, c]; found = None is Err(MappingNotFound),
\* found = Some(i) is Ok(the i-th mapping of the iteration)
get_match(matchers, request, mappings, c) ==
    min_of(mappings, filter_map_mappings(matchers, request, mappings, 1,
                                         [evals |-> <<>>, c |-> c]))

(***************************************************************************)
(* util.rs and server/handler.rs: building responses.  A response is       *)
(* [status, headers, body], headers a sequence of <<HeaderName, value>>.   *)
(***************************************************************************)
\* StatusCode::from_u16 succeeds
ValidStatusCode(status) == status >= 100 /\ status < 600

\* http::response::Builder::new(): status 200, no header, no error
Builder_new == [err |-> None, status |-> 200, headers |-> <<>>]

\* Builder::header: appends, or records the first error; a builder that
\* holds an error ignores the call
Builder_header(b, key, value) ==
    IF IsSome(b.err) THEN b
    ELSE IF ~ValidHeaderName(key)
         THEN [b EXCEPT !.err = Some("invalid HTTP header name")]
    ELSE IF ~ValidHeaderValue(value)
         THEN [b EXCEPT !.err = Some("failed to parse header value")]
    ELSE [b EXCEPT !.headers = Append(@, <<to_lowercase(key), value>>)]

\* Builder::status
Builder_status(b, status) ==
    IF IsSome(b.err) THEN b ELSE [b EXCEPT !.status = status]

\* the `for header in headers` loop of http_response, from header i on
RECURSIVE Builder_headers(_, _, _)
Builder_headers(b, headers, i) ==
    IF i > Len(headers) THEN b
    ELSE Builder_headers(Builder_header(b, headers[i][1], headers[i][2]), headers, i + 1)

\* serde_json::to_string(&ErrorMessage { message })
ErrorMessage_to_string(message) == "{\"message\":\"" \o message \o "\"}"

\* util::error_response giving the bare message as the body
error_response_plain(message, status_code) ==
    [status |-> status_code,
     headers |-> <<<<"content-type", "application/json">>>>,
     body |-> message]

\* util::error_response
error_response(message, status_code) ==
    [status |-> status_code,
     headers |-> <<<<"content-type", "application/json">>>>,
     body |-> ErrorMessage_to_string(message)]

\* the files under the files root, in the order of util::visit_dirs' walk:
\* pairs <<base name, content>>
FilesTree == << <<"body.txt", "hello">>, <<"dup.txt", "one">>, <<"dup.txt", "two">> >>

\* the walk of handler.rs load: read_to_string appends every file whose
\* base name is `filename` to the buffer; [found, buffer] from file i on
RECURSIVE visit_dirs(_, _, _)
visit_dirs(files, filename, i) ==
    IF i > Len(files)
    THEN [found |-> FALSE, buffer |-> ""]
    ELSE LET rest == visit_dirs(files, filename, i + 1)
         IN  IF files[i][1] = filename
             THEN [found |-> TRUE, buffer |-> files[i][2] \o rest.buffer]
             ELSE rest

\* load giving an empty body for a file that is not found
load_empty_when_missing(cache, files, filename) ==
    IF Cached(cache, filename)
    THEN [ok |-> TRUE, text |-> CachedRegex(cache, filename), cache |-> cache]
    ELSE LET w == visit_dirs(files, filename, 1)
         IN  IF w.found
             THEN [ok |-> TRUE, text |-> w.buffer,
                   cache |-> cache \cup {<<filename, w.buffer>>}]
             ELSE [ok |-> FALSE, text |-> "", cache |-> cache]

\* handler.rs load (cached_key_result!, Key = filename): [ok, text, cache];
\* ok with the body, or the error text; only an Ok is stored in the cache
load(cache, files, filename) ==
    IF Cached(cache, filename)
    THEN [ok |-> TRUE, text |-> CachedRegex(cache, filename), cache |-> cache]
    ELSE LET w == visit_dirs(files, filename, 1)
         IN  IF w.found
             THEN [ok |-> TRUE, text |-> w.buffer,
                   cache |-> cache \cup {<<filename, w.buffer>>}]
             ELSE [ok |-> FALSE, text |-> "Body file not found!", cache |-> cache]

\* the status of http_response with 500 as the default of an unset status
static_status_unset_500(response_config) ==
    IF IsSome(response_config.status)
    THEN IF ValidStatusCode(Unwrap(response_config.status))
         THEN Unwrap(response_config.status)
         ELSE 500
    ELSE 500

\* the status handed to response_builder.status() in http_response
static_status(response_config) ==
    IF IsSome(response_config.status)
    THEN IF ValidStatusCode(Unwrap(response_config.status))
         THEN Unwrap(response_config.status)
         ELSE 500
    ELSE 200

\* response_builder.body(body).map_err(..) and the match on it: the built
\* response with the text l = [ok, text, cache] of the body, or the 500 of
\* error_response_fut when the builder holds an error
Builder_body(b, l) ==
    [response |-> IF IsSome(b.err)
                  THEN error_response(Unwrap(b.err), 500)
                  ELSE [status |-> b.status, headers |-> b.headers, body |-> l.text],
     cache |-> l.cache]

\* the else branch of http_response (no proxy_base_url):
\* [response, cache], cache the STATIC_RESPONSE cache after load
static_response(response_config, files, cache) ==
    Builder_body(
        Builder_status(
            IF IsSome(response_config.headers)
            THEN Builder_headers(Builder_new, Unwrap(response_config.headers), 1)
            ELSE Builder_new,
            static_status(response_config)),
        IF IsSome(response_config.body_file_name)
        THEN load(cache, files, Unwrap(response_config.body_file_name))
        ELSE [ok |-> FALSE, text |-> "Unable to process body", cache |-> cache])

\* Display of http::Uri: the path, then '?' and the query when there is one
Uri_to_string(uri) ==
    IF IsSome(uri.query) THEN uri.path \o "?" \o Unwrap(uri.query) ELSE uri.path

\* config::Proxy: Default, new, the setters, and try_from on the matches of
\* the command line [proxy, proxy_url, proxy_username, proxy_password]
Proxy_default ==
    [use_proxy |-> FALSE, proxy_url |-> None,
     proxy_username |-> None, proxy_password |-> None]

Proxy_new(use_proxy, proxy_url) ==
    [use_proxy |-> use_proxy, proxy_url |-> proxy_url,
     proxy_username |-> None, proxy_password |-> None]

set_use_proxy(self, val) == [self EXCEPT !.use_proxy = val]
set_proxy_url(self, val) == [self EXCEPT !.proxy_url = val]

Proxy_of(matches) ==
    [use_proxy |-> matches.proxy, proxy_url |-> matches.proxy_url,
     proxy_username |-> matches.proxy_username,
     proxy_password |-> matches.proxy_password]

\* [ok, val, err]
Proxy_try_from(matches) ==
    IF matches.proxy /\ IsSome(matches.proxy_url)
    THEN [ok |-> TRUE, val |-> Some(Proxy_of(matches)), err |-> None]
    ELSE IF matches.proxy /\ ~IsSome(matches.proxy_url)
         THEN [ok |-> FALSE, val |-> None, err |-> Some("InvalidProxyConfig")]
         ELSE [ok |-> TRUE, val |-> Some(Proxy_of(matches)), err |-> None]

\* the connector the spawned task of http_response builds: through the
\* proxy (Some(url)), direct (None), or the task panics with "Unable to
\* determine proxy url!" before run_request is called
connector(proxy_config) ==
    IF proxy_config.use_proxy
    THEN IF IsSome(proxy_config.proxy_url)
         THEN [panics |-> FALSE, proxy |-> proxy_config.proxy_url]
         ELSE [panics |-> TRUE, proxy |-> None]
    ELSE [panics |-> FALSE, proxy |-> None]

\* the request builder of run_request: HyperRequest::get(url), then every
\* additional header; the builder keeps the first error
upstream_builder(request, response_config) ==
    Builder_headers([err |-> None, status |-> 200, headers |-> <<>>],
                    IF IsSome(response_config.additional_proxy_request_headers)
                    THEN Unwrap(response_config.additional_proxy_request_headers)
                    ELSE <<>>,
                    1)

\* the request run_request hands to client.request: Some(a GET of full_url
\* with the additional headers), or None when
\* request_builder.body(..).expect(..) panics on a builder that holds an
\* error and the task ends without a request
upstream_request_of(b, conn, request, response_config) ==
    IF conn.panics \/ IsSome(b.err)
    THEN None
    ELSE Some([method |-> "GET",
               url |-> Unwrap(response_config.proxy_base_url)
                          \o Uri_to_string(request.uri),
               headers |-> b.headers,
               proxy |-> conn.proxy])

upstream_request(config, request, response_config) ==
    upstream_request_of(upstream_builder(request, response_config),
                        connector(config), request, response_config)

\* what run_request sends on the channel for a dispatched request:
\* Ok(the upstream body), Err of a body that cannot be read, or Err with
\* the error of the request (no connection, the 10 s timeout)
UpstreamOutcomes ==
    {[ok |-> TRUE, val |-> "upstream body"],
     [ok |-> FALSE, val |-> "Unable to process upstream response!"],
     [ok |-> FALSE, val |-> "Unable to process upstream response! connect error"],
     [ok |-> FALSE, val |-> "Unable to process upstream response! timeout"]}

fold_step_ok_only(buffer, res) ==
    IF res.ok THEN buffer \o res.val ELSE buffer

\* one step of the rx.fold of http_response: the text of an Ok and the
\* text of an Err are both pushed on the buffer
fold_step(buffer, res) ==
    IF res.ok THEN buffer \o res.val ELSE buffer \o res.val

\* the rx.fold of http_response over the messages of the channel (the one
\* message of run_request, or none when the task ended without sending)
rx_fold(messages) ==
    IF messages = <<>> THEN "" ELSE fold_step("", messages[1])

\* the .map(Response::new) of http_response
proxy_response(buffer) == [status |-> 200, headers |-> <<>>, body |-> buffer]

(***************************************************************************)
(* The configuration records (src/config) and the values of the model.     *)
(***************************************************************************)
\* Either<String, String> of libeither
Left(x) == [left |-> Some(x), right |-> None]
Right(x) == [left |-> None, right |-> Some(x)]

\* config::Request::default()
Request_default ==
    [method |-> None, method_pattern |-> None, url |-> None, url_pattern |-> None,
     headers |-> <<>>, header |-> None, header_pattern |-> None]

\* config::Response::default()
Response_default ==
    [status |-> None, headers |-> None, body_file_name |-> None,
     proxy_base_url |-> None, additional_proxy_request_headers |-> None]

\* config::Mapping
Mapping(name, priority, request, response) ==
    [name |-> name, priority |-> priority, request |-> request, response |-> response]

\* the mappings a mappings directory of the model may hold
MappingPool ==
    { Mapping("Exact Match - Header", 1,
              [Request_default EXCEPT !.header = Some(<<"X-A", "v">>)],
              Response_default),
      Mapping("Exact Match - Method & URL", 2,
              [Request_default EXCEPT !.method = Some("GET"), !.url = Some("/a")],
              [Response_default EXCEPT !.status = Some(200),
                  !.headers = Some(<< <<"Content-Type", "application/json">>, <<"X-A", "v">> >>),
                  !.body_file_name = Some("body.txt")]),
      Mapping("Exact Match - Headers", 1,
              [Request_default EXCEPT !.headers = << <<"X-A", "v">>, <<"X-B", "v">> >>,
                  !.header_pattern = Some([key |-> Left("X-A"), value |-> Right("*")])],
              [Response_default EXCEPT !.status = Some(404),
                  !.body_file_name = Some("missing.txt")]),
      Mapping("Exact Match - Header and Headers that are no headers", 2,
              [Request_default EXCEPT !.header = Some(<<"Bad Name", "v">>),
                  !.headers = << <<"Bad Name", "v">> >>,
                  !.url_pattern = Some("(")],
              [Response_default EXCEPT !.status = Some(99),
                  !.body_file_name = Some("body.txt")]),
      Mapping("Pattern Match - Header", 1,
              [Request_default EXCEPT
                  !.header_pattern = Some([key |-> Left("X-A"), value |-> Right("^[vV]$")])],
              [Response_default EXCEPT !.status = Some(201),
                  !.headers = Some(<< <<"X-B", "v">>, <<"Bad Name", "v">> >>),
                  !.body_file_name = Some("body.txt"),
                  !.proxy_base_url = Some("http://up"),
                  !.additional_proxy_request_headers =
                      Some(<< <<"X-B", "v">>, <<"Bad Name", "v">> >>)]),
      Mapping("Pattern Match - Headers", 2,
              [Request_default EXCEPT !.method = Some("get"),
                  !.url_pattern = Some("^/a$"),
                  !.headers = << <<"X-A", "^v$">>, <<"X-B", "^v$">> >>],
              [Response_default EXCEPT !.body_file_name = Some("dup.txt")]),
      Mapping("Pattern Match - Method & URL", 3,
              [Request_default EXCEPT !.method_pattern = Some("^(PUT|POST|PATCH)$"),
                  !.url_pattern = Some("^/.*$")],
              [Response_default EXCEPT !.proxy_base_url = Some("http://up"),
                  !.additional_proxy_request_headers = Some(<< <<"X-A", "v">> >>)]),
      Mapping("Mixed Match - Header & URL", 2,
              [Request_default EXCEPT !.url = Some("/a"),
                  !.header_pattern = Some([key |-> Right("^x-.*$"), value |-> Left("v")])],
              [Response_default EXCEPT !.status = Some(200),
                  !.headers = Some(<< <<"X-B", "bad\nvalue">> >>),
                  !.body_file_name = Some("missing.txt")]),
      Mapping("Empty", 1, Request_default, Response_default) }

\* the stores Mappings::try_from can load (every file of the directory a
\* mapping of its own), as the sequence in which the HashMap iterates them
\* (any order)
RECURSIVE SeqsUpTo(_, _)
SeqsUpTo(S, n) ==
    IF n = 0 THEN {<<>>}
    ELSE LET shorter == SeqsUpTo(S, n - 1)
         IN  shorter \cup {Append(q, x) : q \in shorter, x \in S}

Stores ==
    {q \in SeqsUpTo(MappingPool, MaxMappings) :
        \A i, j \in 1..Len(q) : i # j => q[i] # q[j]}

\* the Enabled sets a handler is run with: the library's own (exact(),
\* pattern(), both), every single flag, and the empty set
EnabledSets == {exact, pattern, exact \cup pattern, {}} \cup {{f} : f \in Flags}

\* the requests the codec may deliver: http::Request<()>; header names are
\* HeaderNames (lower case), header values are visible ASCII text
Methods == {"GET", "POST"}
Uris == {[path |-> "/a", query |-> None], [path |-> "/b", query |-> Some("q=1")]}

\* the header entries a request may carry; HeaderMap::iter gives the entries
\* name by name, so a request's headers are taken in the order of this list
\* (an entry may be repeated)
HeaderEntries == << <<"x-a", "v">>, <<"x-a", "V">>, <<"x-b", "v">> >>
HeaderLists ==
    {[k \in 1..Len(q) |-> HeaderEntries[q[k]]] :
        q \in {q \in SeqsUpTo(1..Len(HeaderEntries), MaxHeaders) :
                   \A k \in 1..(Len(q) - 1) : q[k] <= q[k + 1]}}
\* the requests of the model's clients: every method on /b?q=1, GET on /a
Requests ==
    {r \in [method : Methods, uri : Uris, headers : HeaderLists] :
        r.uri.path = "/a" => r.method = "GET"}

(***************************************************************************)
(* Mappings::try_from: the walk of the mappings directory.  An entry of a  *)
(* directory is a file [dir |-> FALSE, buffer, entries |-> <<>>] or a       *)
(* directory [dir |-> TRUE, buffer |-> "", entries]; an identifier is a     *)
(* number of 1..MaxUuid.                                                    *)
(***************************************************************************)
MaxEntries == 3
MaxUuid == 3

FileEntry(buffer) == [dir |-> FALSE, buffer |-> buffer, entries |-> <<>>]
DirEntry(entries) == [dir |-> TRUE, buffer |-> "", entries |-> entries]

\* toml::from_slice::<Mapping>: [ok, val]; priority, request and response
\* are required
toml_from_slice(buffer) ==
    CASE buffer = "priority = 1\n[request]\n[response]\n" ->
           [ok |-> TRUE, val |-> Some(Mapping("", 1, Request_default, Response_default))]
      [] buffer = "priority = 2\n[request]\nurl = \"/a\"\n[response]\nstatus = 200\n" ->
           [ok |-> TRUE,
            val |-> Some(Mapping("", 2, [Request_default EXCEPT !.url = Some("/a")],
                                 [Response_default EXCEPT !.status = Some(200)]))]
      [] buffer = "priority = 2\n[request]\nmethod = \"GET\"\n[response]\nstatus = 201\n" ->
           [ok |-> TRUE,
            val |-> Some(Mapping("", 2, [Request_default EXCEPT !.method = Some("GET")],
                                 [Response_default EXCEPT !.status = Some(201)]))]
      [] OTHER -> [ok |-> FALSE, val |-> None]

\* the entries a directory of the model may hold, and the directories
EntryPool ==
    {FileEntry("priority = 1\n[request]\n[response]\n"),
     FileEntry("priority = 2\n[request]\nurl = \"/a\"\n[response]\nstatus = 200\n"),
     FileEntry("priority = \"abc\"\n"),
     DirEntry(<<FileEntry("priority = 1\n[request]\n[response]\n"),
                FileEntry("priority = 1\n[request]\n[response]\n")>>)}
LoadTrees == SeqsUpTo(EntryPool, MaxEntries)
Uuids == 1..MaxUuid

\* util::visit_dirs: the files in the order the callback is called on them
RECURSIVE visit_dirs_files(_, _)
visit_dirs_files(entries, i) ==
    IF i > Len(entries)
    THEN <<>>
    ELSE (IF entries[i].dir
          THEN visit_dirs_files(entries[i].entries, 1)
          ELSE <<entries[i]>>) \o visit_dirs_files(entries, i + 1)

\* the store before the first file
Loading_new(tree) ==
    [tree |-> tree, files |-> visit_dirs_files(tree, 1), pos |-> 1,
     inner |-> {}, uuids |-> <<>>, result |-> None]

\* HashMap::insert: the value replaces the one under the key; [inner, old]
HashMap_insert(inner, k, v) ==
    [inner |-> {e \in inner : e[1] # k} \cup {<<k, v>>},
     old |-> {e \in inner : e[1] = k}]

cb_insert_unchecked(inner, uuid, mapping) ==
    [ok |-> TRUE, inner |-> HashMap_insert(inner, uuid, mapping).inner, err |-> None]

\* the insert of the callback of Mappings::try_from: [ok, inner, err]
cb_insert(inner, uuid, mapping) ==
    IF HashMap_insert(inner, uuid, mapping).old # {}
    THEN [ok |-> FALSE, inner |-> HashMap_insert(inner, uuid, mapping).inner,
          err |-> Some("MappingKeyCollision")]
    ELSE [ok |-> TRUE, inner |-> HashMap_insert(inner, uuid, mapping).inner,
          err |-> None]

(***************************************************************************)
(* Serialize and Deserialize of the config records (serde derive).  The    *)
(* serialised form is a document: a value [t, s, n, items] that is null, a  *)
(* string, a number, an array of values or an object, an object being the   *)
(* sequence of its fields and a field a value with t = "field", its key in  *)
(* s and its value in items[1].                                             *)
(***************************************************************************)
Null == [t |-> "null", s |-> "", n |-> 0, items |-> <<>>]
Str(s) == [t |-> "str", s |-> s, n |-> 0, items |-> <<>>]
Num(n) == [t |-> "num", s |-> "", n |-> n, items |-> <<>>]
Arr(items) == [t |-> "arr", s |-> "", n |-> 0, items |-> items]
Obj(fields) == [t |-> "obj", s |-> "", n |-> 0, items |-> fields]
Field(k, v) == [t |-> "field", s |-> k, n |-> 0, items |-> <<v>>]

\* serialize_field of a field with skip_serializing_if = "Option::is_none"
\* (or "Vec::is_empty"): no field when the test holds
skip_if(test, k, v) == IF test THEN <<>> ELSE <<Field(k, v)>>
ser_str_option(o) == IF IsSome(o) THEN Str(Unwrap(o)) ELSE Null

ser_Header(header) ==
    Obj(<<Field("key", Str(header[1])), Field("value", Str(header[2]))>>)
ser_Headers(headers) == Arr([i \in 1..Len(headers) |-> ser_Header(headers[i])])
ser_Either(either) ==
    Obj(<<Field("left", ser_str_option(either.left)),
          Field("right", ser_str_option(either.right))>>)
ser_HeaderPattern(hp) ==
    Obj(<<Field("key", ser_Either(hp.key)), Field("value", ser_Either(hp.value))>>)

ser_Request(r) ==
    Obj(skip_if(~IsSome(r.method), "method", ser_str_option(r.method))
        \o skip_if(~IsSome(r.method_pattern), "method_pattern",
                   ser_str_option(r.method_pattern))
        \o skip_if(~IsSome(r.url), "url", ser_str_option(r.url))
        \o skip_if(~IsSome(r.url_pattern), "url_pattern", ser_str_option(r.url_pattern))
        \o skip_if(r.headers = <<>>, "headers", ser_Headers(r.headers))
        \o (IF IsSome(r.header)
            THEN <<Field("header", ser_Header(Unwrap(r.header)))>> ELSE <<>>)
        \o (IF IsSome(r.header_pattern)
            THEN <<Field("header_pattern", ser_HeaderPattern(Unwrap(r.header_pattern)))>>
            ELSE <<>>))

ser_Response(r) ==
    Obj((IF IsSome(r.status) THEN <<Field("status", Num(Unwrap(r.status)))>> ELSE <<>>)
        \o (IF IsSome(r.headers)
            THEN <<Field("headers", ser_Headers(Unwrap(r.headers)))>> ELSE <<>>)
        \o skip_if(~IsSome(r.body_file_name), "body_file_name",
                   ser_str_option(r.body_file_name))
        \o skip_if(~IsSome(r.proxy_base_url), "proxy_base_url",
                   ser_str_option(r.proxy_base_url))
        \o (IF IsSome(r.additional_proxy_request_headers)
            THEN <<Field("additional_proxy_request_headers",
                         ser_Headers(Unwrap(r.additional_proxy_request_headers)))>>
            ELSE <<>>))

ser_Mapping(m) ==
    Obj(<<Field("priority", Num(m.priority)),
          Field("request", ser_Request(m.request)),
          Field("response", ser_Response(m.response))>>)

\* toml::Value::try_from: a None is no value, and the field that holds it is
\* left out of its table
RECURSIVE toml_value(_)
toml_value(v) ==
    IF v.t \in {"arr", "field"}
    THEN [v EXCEPT !.items = [i \in 1..Len(v.items) |-> toml_value(v.items[i])]]
    ELSE IF v.t = "obj"
         THEN [v EXCEPT !.items =
                  LET kept == SelectSeq(v.items, LAMBDA f : f.items[1].t # "null")
                  IN  [i \in 1..Len(kept) |-> toml_value(kept[i])]]
         ELSE v

\* the document written and read back: serde_json::to_string writes every
\* field serialised, null for a None
written(format, doc) == IF format = "toml" THEN toml_value(doc) ELSE doc

\* the fields of an object with key k, and the value of the first
fields_of(doc, k) == SelectSeq(doc.items, LAMBDA f : f.s = k)
has(doc, k) == doc.t = "obj" /\ fields_of(doc, k) # <<>>
get(doc, k) == fields_of(doc, k)[1].items[1]

\* deserialisers: [ok, val], val <<>> on an error
Ok(v) == [ok |-> TRUE, val |-> <<v>>]
Err == [ok |-> FALSE, val |-> <<>>]

\* a String field, required
de_String(doc, k) ==
    IF has(doc, k) /\ get(doc, k).t = "str" THEN Ok(get(doc, k).s) ELSE Err
\* an Option<String> field: None when missing or null
de_String_option(doc, k) ==
    IF ~has(doc, k) \/ get(doc, k).t = "null"
    THEN Ok(None)
    ELSE IF get(doc, k).t = "str" THEN Ok(Some(get(doc, k).s)) ELSE Err
\* a number field: u8 for the priority, u16 for the status
de_number(v, max) == IF v.t = "num" /\ v.n >= 0 /\ v.n <= max THEN Ok(v.n) ELSE Err

de_Header_of(key, value) ==
    IF key.ok /\ value.ok THEN Ok(<<Unwrap(key.val), Unwrap(value.val)>>) ELSE Err
de_Header(doc) ==
    IF doc.t = "obj" THEN de_Header_of(de_String(doc, "key"), de_String(doc, "value")) ELSE Err

de_Headers(doc) ==
    IF doc.t = "arr" /\ \A i \in 1..Len(doc.items) : de_Header(doc.items[i]).ok
    THEN Ok([i \in 1..Len(doc.items) |-> Unwrap(de_Header(doc.items[i]).val)])
    ELSE Err

de_Either_of(left, right) ==
    IF left.ok /\ right.ok
    THEN Ok([left |-> Unwrap(left.val), right |-> Unwrap(right.val)])
    ELSE Err
de_Either(doc) ==
    IF doc.t = "obj"
    THEN de_Either_of(de_String_option(doc, "left"), de_String_option(doc, "right"))
    ELSE Err

de_HeaderPattern_of(key, value) ==
    IF key.ok /\ value.ok
    THEN Ok([key |-> Unwrap(key.val), value |-> Unwrap(value.val)])
    ELSE Err
de_HeaderPattern(doc) ==
    IF doc.t = "obj" /\ has(doc, "key") /\ has(doc, "value")
    THEN de_HeaderPattern_of(de_Either(get(doc, "key")), de_Either(get(doc, "value")))
    ELSE Err

\* an Option<T> field, T read by a deserialiser whose result on the value
\* of the field is r
de_option(doc, k, r) ==
    IF ~has(doc, k) \/ get(doc, k).t = "null"
    THEN Ok(None)
    ELSE IF r.ok THEN Ok(Some(Unwrap(r.val))) ELSE Err
\* the value of a field for a deserialiser; null when there is no field
value_of(doc, k) == IF has(doc, k) THEN get(doc, k) ELSE Null

de_headers_required(doc) ==
    IF has(doc, "headers") THEN de_Headers(get(doc, "headers")) ELSE Err
\* the headers of a Request: #[serde(default)]
de_headers_default(doc) ==
    IF has(doc, "headers") THEN de_Headers(get(doc, "headers")) ELSE Ok(<<>>)

de_Request_of(method, method_pattern, url, url_pattern, headers, header, header_pattern) ==
    IF /\ method.ok /\ method_pattern.ok /\ url.ok /\ url_pattern.ok
       /\ headers.ok /\ header.ok /\ header_pattern.ok
    THEN Ok([method |-> Unwrap(method.val),
             method_pattern |-> Unwrap(method_pattern.val),
             url |-> Unwrap(url.val),
             url_pattern |-> Unwrap(url_pattern.val),
             headers |-> Unwrap(headers.val),
             header |-> Unwrap(header.val),
             header_pattern |-> Unwrap(header_pattern.val)])
    ELSE Err
de_Request(doc) ==
    IF doc.t = "obj"
    THEN de_Request_of(
             de_String_option(doc, "method"),
             de_String_option(doc, "method_pattern"),
             de_String_option(doc, "url"),
             de_String_option(doc, "url_pattern"),
             de_headers_default(doc),
             de_option(doc, "header", de_Header(value_of(doc, "header"))),
             de_option(doc, "header_pattern",
                       de_HeaderPattern(value_of(doc, "header_pattern"))))
    ELSE Err

de_Response_of(status, headers, body_file_name, proxy_base_url, additional) ==
    IF /\ status.ok /\ headers.ok /\ body_file_name.ok /\ proxy_base_url.ok
       /\ additional.ok
    THEN Ok([status |-> Unwrap(status.val),
             headers |-> Unwrap(headers.val),
             body_file_name |-> Unwrap(body_file_name.val),
             proxy_base_url |-> Unwrap(proxy_base_url.val),
             additional_proxy_request_headers |-> Unwrap(additional.val)])
    ELSE Err
de_Response(doc) ==
    IF doc.t = "obj"
    THEN de_Response_of(
             de_option(doc, "status", de_number(value_of(doc, "status"), 65535)),
             de_option(doc, "headers", de_Headers(value_of(doc, "headers"))),
             de_String_option(doc, "body_file_name"),
             de_String_option(doc, "proxy_base_url"),
             de_option(doc, "additional_proxy_request_headers",
                       de_Headers(value_of(doc, "additional_proxy_request_headers"))))
    ELSE Err

de_Mapping_of(priority, request_config, response_config) ==
    IF priority.ok /\ request_config.ok /\ response_config.ok
    THEN Ok(Mapping("", Unwrap(priority.val), Unwrap(request_config.val),
                    Unwrap(response_config.val)))
    ELSE Err
de_Mapping(doc) ==
    IF doc.t = "obj" /\ has(doc, "priority") /\ has(doc, "request") /\ has(doc, "response")
    THEN de_Mapping_of(de_number(get(doc, "priority"), 255),
                       de_Request(get(doc, "request")),
                       de_Response(get(doc, "response")))
    ELSE Err

serialize(kind, v) ==
    CASE kind = "Header" -> ser_Header(v)
      [] kind = "HeaderPattern" -> ser_HeaderPattern(v)
      [] kind = "Request" -> ser_Request(v)
      [] kind = "Response" -> ser_Response(v)
      [] kind = "Mapping" -> ser_Mapping(v)

deserialize(kind, doc) ==
    CASE kind = "Header" -> de_Header(doc)
      [] kind = "HeaderPattern" -> de_HeaderPattern(doc)
      [] kind = "Request" -> de_Request(doc)
      [] kind = "Response" -> de_Response(doc)
      [] kind = "Mapping" -> de_Mapping(doc)

\* the values serialised: the defaults (Header and Mapping derive Default),
\* the records of the mappings of the pool, a response with an empty list of
\* headers
Kinds == {"Header", "HeaderPattern", "Request", "Response", "Mapping"}
Formats == {"json", "toml"}
SerdeValues(kind) ==
    CASE kind = "Header" ->
           {<<"", "">>, <<"Content-Type", "application/json">>, <<"X-A", "v">>}
      [] kind = "HeaderPattern" ->
           {[key |-> Left("Content-Type"), value |-> Right("^application/.*")],
            [key |-> Right("^x-.*$"), value |-> Left("v")],
            [key |-> [left |-> None, right |-> None], value |-> Left("")]}
      [] kind = "Request" -> {Request_default} \cup {m.request : m \in MappingPool}
      [] kind = "Response" ->
           {Response_default,
            [Response_default EXCEPT !.headers = Some(<<>>)],
            [Response_default EXCEPT !.additional_proxy_request_headers = Some(<<>>),
                                     !.status = Some(0)]}
           \cup {m.response : m \in MappingPool}
      [] kind = "Mapping" ->
           {Mapping("", 0, Request_default, Response_default)}
           \cup {[m EXCEPT !.name = ""] : m \in MappingPool}
      [] OTHER -> {<<>>}

Serde_new(kind, v) ==
    [kind |-> kind, value |-> v, format |-> "", doc |-> None, back |-> None]

(***************************************************************************)
(* load called from several worker threads (the expansion of               *)
(* cached_key_result!): the cache is looked up under its lock, the body of  *)
(* load runs without the lock, and the result is set under the lock.       *)
(***************************************************************************)
MaxThreads == 2
MaxServed == 3

Threads == 1..MaxThreads
DiskContents == {"hello", "changed"}
\* the files root with the one file body.txt
DiskTree(content) == << <<"body.txt", content>> >>

Loads_new(content) ==
    [disk |-> content,
     pc |-> [t \in Threads |-> "idle"],
     buffer |-> [t \in Threads |-> ""],
     served |-> <<>>]

\* Cached::cache_set of UnboundCache: HashMap::insert, the value replaces
\* the one under the key
cache_set(cache, key, val) ==
    {e \in cache : e[1] # key} \cup {<<key, val>>}

(***************************************************************************)
(* The upstream task of a proxied request (the async block http_response   *)
(* spawns, and run_request in it), step by step.                           *)
(***************************************************************************)
\* no upstream task: pc is the position of the task, elapsed whether the
\* 10 s of the timeout have passed since the request was dispatched, open
\* whether the client still holds the connection, closed_at the position
\* of the task when the client closed it
Task_new == [pc |-> "none", elapsed |-> FALSE, open |-> TRUE, closed_at |-> "none"]

(***************************************************************************)
(* The listener and the connections it accepted (run and handle): every    *)
(* connection is a task of its own, spawned by handle.                     *)
(***************************************************************************)
MaxConns == 2
Conns == 1..MaxConns

\* a socket not accepted yet: state is none, open or ended, pending whether
\* a request read from it waits for its response, answered the number of
\* responses written to it, after whether one of them was written when
\* another connection had already ended, error the error its task logged
Conn_new ==
    [state |-> "none", pending |-> FALSE, answered |-> 0, after |-> FALSE,
     error |-> ""]

\* run before the first socket: the listener is bound and polled
Server_new == [listening |-> TRUE, conns |-> [c \in Conns |-> Conn_new]]

task_ended_all(srv, c, e) ==
    [srv EXCEPT !.conns = [d \in Conns |->
                              IF srv.conns[d].state = "open"
                              THEN [srv.conns[d] EXCEPT !.state = "ended",
                                                        !.pending = FALSE,
                                                        !.error = e]
                              ELSE srv.conns[d]]]

\* the task of handle resolves: send_all ended with an error, the then
\* closure logs it and returns Ok(()); the task is dropped with its socket
task_ended(srv, c, e) ==
    [srv EXCEPT !.conns[c].state = "ended", !.conns[c].pending = FALSE,
                !.conns[c].error = e]

(***************************************************************************)
(* The state: the Handler's fields, the process-wide caches, and the last  *)
(* request handled by respond with what it did.                            *)
(***************************************************************************)
VARIABLES
    static_mappings,   \* Handler.static_mappings, in iteration order
    dynamic_mappings,  \* Handler.dynamic_mappings (never populated)
    enabled,           \* Handler.enabled
    REGEX,             \* the regex caches [url, header, method]
    STATIC_RESPONSE,   \* the cache of load
    request,           \* Option: the request respond is handling
    matched,           \* get_match on the static store for it: [found, evals]
    branch,            \* the branch of respond taken: none, static, proxy, not_found
    upstream,          \* [request, result]: the upstream request dispatched
                       \* for it and what run_request sent on the channel
    response,          \* Option: the response its future resolved to
    proxy_config,      \* Handler.proxy_config
    proxy_built,       \* [matches, error]: the arguments of the last
                       \* Proxy::try_from and the error it returned
    serde,             \* a config value, its serialised form and the value
                       \* read back: [kind, value, format, doc, back]
    loading,           \* Mappings::try_from on a mappings directory:
                       \* [tree, files, pos, inner, uuids, result]
    loads,             \* calls of load on worker threads and the file on
                       \* disk: [disk, pc, buffer, served]
    task,              \* the upstream task of the request being handled:
                       \* [pc, elapsed, open, closed_at]
    order,             \* Option: the keys of the loaded store in the order
                       \* its HashMap iterates, once the Handler holds it
    server,            \* the listener and its connections: [listening, conns]
    reads,             \* the number of requests read from the connection
    sent               \* the responses written to the connection, in order:
                       \* [id, branch], id the number of the request answered

handler_vars == <<serde, loading, static_mappings, dynamic_mappings, enabled, proxy_config,
                  proxy_built, REGEX, STATIC_RESPONSE,
                  request, matched, branch, upstream, response>>
conn_vars == <<reads, sent>>
later_vars == <<task, order, server>>
other_vars == <<loads, later_vars>>
vars == <<handler_vars, conn_vars, other_vars>>

\* Handler::new on the stores and the Enabled sets given, before any
\* request, and Mappings::try_from called on one of the directories given
InitOn(StartStores, StartEnabled, StartTrees, StartKinds) ==
    /\ static_mappings \in StartStores
    /\ dynamic_mappings = <<>>
    /\ enabled \in StartEnabled
    /\ REGEX = EmptyCaches
    /\ STATIC_RESPONSE = {}
    /\ request = None
    /\ matched = [found |-> None, evals |-> <<>>]
    /\ branch = "none"
    /\ upstream = [request |-> None, result |-> None]
    /\ response = None
    /\ loading \in {Loading_new(tree) : tree \in StartTrees}
    /\ \E kind \in StartKinds : serde \in {Serde_new(kind, v) : v \in SerdeValues(kind)}
    /\ proxy_config = Proxy_default
    /\ proxy_built = [matches |-> None, error |-> None]
    /\ reads = 0
    /\ sent = <<>>

\* no call of load is running on another thread
Quiet ==
    /\ loads = Loads_new("hello")
    /\ task = Task_new
    /\ order = None
    /\ server = Server_new

Init == InitOn(Stores, EnabledSets, {<<>>}, {"none"}) /\ Quiet

\* the outcome of http_response on its else branch, r = [response, cache]
static_outcome(r) ==
    [response |-> Some(r.response), upstream |-> None, cache |-> r.cache,
     branch |-> "static"]

\* http_response: [response, upstream, cache, branch] for the response
\* config of the mapping found; on the proxy branch the upstream task is
\* spawned and the response is pending (None) until the channel is folded
http_response(config, req, response_config, cache) ==
    IF IsSome(response_config.proxy_base_url)
    THEN [response |-> None,
          upstream |-> upstream_request(config, req, response_config),
          cache |-> cache,
          branch |-> "proxy"]
    ELSE static_outcome(static_response(response_config, FilesTree, cache))

\* the outcome of the second get_match of respond, d, after the first, g
dynamic_outcome(g, d) ==
    [mapping |-> IF IsSome(d.found)
                 THEN Some(dynamic_mappings[Unwrap(d.found)])
                 ELSE None,
     found |-> g.found, evals |-> g.evals, c |-> d.c]

\* the `if let Ok(mapping) = .. else if let Ok(mapping) = ..` of respond, g
\* the result of get_match on the static store
or_else_dynamic(matcher, req, g) ==
    IF IsSome(g.found)
    THEN [mapping |-> Some(static_mappings[Unwrap(g.found)]),
          found |-> g.found, evals |-> g.evals, c |-> g.c]
    ELSE dynamic_outcome(g, get_match(matcher, req, dynamic_mappings, g.c))

\* the matching of respond: get_match on the static store, then on the
\* dynamic store: [mapping, found, evals, c], mapping the Option of the
\* mapping http_response is called for, found and evals those of the static
\* store
respond_match(req) ==
    or_else_dynamic(Matcher_new(enabled), req,
                    get_match(Matcher_new(enabled), req, static_mappings, REGEX))

\* the rest of respond: http_response for the mapping, or the 404 of
\* error_response_fut
respond(req, mapping, cache) ==
    IF IsSome(mapping)
    THEN http_response(proxy_config, req, Unwrap(mapping).response, cache)
    ELSE [response |-> Some(error_response("No mapping found", 404)),
          upstream |-> None, cache |-> cache, branch |-> "not_found"]

Respond_pipelined(req) ==
    /\ \E m \in {respond_match(req)} :
         \E r \in {respond(req, m.mapping, STATIC_RESPONSE)} :
           /\ request' = Some(req)
           /\ response' = r.response
           /\ upstream' = [request |-> r.upstream, result |-> None]
           /\ branch' = r.branch
           /\ matched' = [found |-> m.found, evals |-> m.evals]
           /\ REGEX' = m.c
           /\ STATIC_RESPONSE' = r.cache
    /\ UNCHANGED <<other_vars, serde, loading, static_mappings, dynamic_mappings, enabled, proxy_config, proxy_built>>

\* handle: rx.and_then polls the connection for the next request only when
\* no response future is pending; respond is called on the request read
Respond(req) ==
    /\ request = None
    /\ \E m \in {respond_match(req)} :
         \E r \in {respond(req, m.mapping, STATIC_RESPONSE)} :
           /\ request' = Some(req)
           /\ response' = r.response
           /\ upstream' = [request |-> r.upstream, result |-> None]
           /\ branch' = r.branch
           /\ matched' = [found |-> m.found, evals |-> m.evals]
           /\ REGEX' = m.c
           /\ STATIC_RESPONSE' = r.cache
    /\ UNCHANGED <<other_vars, serde, loading, static_mappings, dynamic_mappings, enabled, proxy_config, proxy_built>>

\* the messages the upstream task leaves on the channel: the one message of
\* run_request for a dispatched request, none when the task ended before
Messages ==
    IF IsSome(upstream.request) THEN {Some(o) : o \in UpstreamOutcomes} ELSE {None}

\* the upstream task of a proxied request ends, the channel closes and the
\* fold over it resolves the response
UpstreamDone ==
    /\ request # None
    /\ branch = "proxy"
    /\ response = None
    /\ \E messages \in Messages :
         /\ upstream' = [upstream EXCEPT !.result = messages]
         /\ response' = Some(proxy_response(rx_fold(messages)))
    /\ UNCHANGED <<other_vars, serde, loading, static_mappings, dynamic_mappings, enabled, proxy_config, proxy_built, REGEX, STATIC_RESPONSE,
                   request, matched, branch>>

\* handle: send_all writes the resolved response to the connection; the
\* stream is then polled for the next request
Send ==
    /\ request # None
    /\ response # None
    /\ request' = None
    /\ response' = None
    /\ upstream' = [request |-> None, result |-> None]
    /\ branch' = "none"
    /\ matched' = [found |-> None, evals |-> <<>>]
    /\ UNCHANGED <<other_vars, serde, loading, static_mappings, dynamic_mappings, enabled, proxy_config, proxy_built, REGEX, STATIC_RESPONSE>>

Next ==
    \/ \E req \in Requests : Respond(req) /\ UNCHANGED conn_vars
    \/ UpstreamDone /\ UNCHANGED conn_vars
    \/ Send /\ UNCHANGED conn_vars

Spec == Init /\ [][Next]_vars

\* One connection, with the requests read and the responses written
\* numbered: a store of a proxied and a static mapping, every predicate
\* enabled, and at most MaxRequests requests on the connection.
MaxRequests == 2

ConnStores ==
    {s \in Stores :
        /\ Len(s) = 2
        /\ \E i \in 1..Len(s) : IsSome(s[i].response.proxy_base_url)
        /\ \E i \in 1..Len(s) : ~IsSome(s[i].response.proxy_base_url)}

InitConn == InitOn(ConnStores, {exact \cup pattern}, {<<>>}, {"none"}) /\ Quiet

\* the stream half of the connection yields the next request
ConnRead(req) ==
    /\ reads < MaxRequests
    /\ Respond(req)
    /\ reads' = reads + 1
    /\ sent' = sent

ConnUpstreamDone == UpstreamDone /\ UNCHANGED conn_vars

\* the sink half of the connection takes the resolved response
ConnSend ==
    /\ Send
    /\ sent' = Append(sent, [id |-> reads, branch |-> branch])
    /\ reads' = reads

NextConn ==
    \/ \E req \in Requests : ConnRead(req)
    \/ ConnUpstreamDone
    \/ ConnSend

SpecConn == InitConn /\ [][NextConn]_vars

\* The proxy configuration, built before Handler::new takes it: by
\* Proxy::new, the generated setters or Proxy::try_from on the matches of
\* the command line; then one connection on a store of one proxied mapping.
ProxyUrls == {None, Some("http://a.proxy.com")}
Credentials == {<<None, None>>, <<Some("test"), Some("test")>>}
ArgMatches ==
    {[proxy |-> p, proxy_url |-> u, proxy_username |-> c[1], proxy_password |-> c[2]] :
        p \in BOOLEAN, u \in ProxyUrls, c \in Credentials}

ProxyStores ==
    {s \in Stores : Len(s) = 1 /\ IsSome(s[1].response.proxy_base_url)}

InitProxy == InitOn(ProxyStores, {exact \cup pattern}, {<<>>}, {"none"}) /\ Quiet

\* no request was read yet: the configuration is still being built
Building == reads = 0 /\ request = None

ProxyNew(use_proxy, proxy_url) ==
    /\ Building
    /\ proxy_config' = Proxy_new(use_proxy, proxy_url)
    /\ proxy_built' = [matches |-> None, error |-> None]
    /\ UNCHANGED <<other_vars, serde, loading, static_mappings, dynamic_mappings, enabled, REGEX, STATIC_RESPONSE,
                   request, matched, branch, upstream, response, conn_vars>>

ProxySetUseProxy(val) ==
    /\ Building
    /\ proxy_config' = set_use_proxy(proxy_config, val)
    /\ UNCHANGED <<other_vars, serde, loading, static_mappings, dynamic_mappings, enabled, REGEX, STATIC_RESPONSE,
                   request, matched, branch, upstream, response, proxy_built, conn_vars>>

ProxySetProxyUrl(val) ==
    /\ Building
    /\ proxy_config' = set_proxy_url(proxy_config, val)
    /\ UNCHANGED <<other_vars, serde, loading, static_mappings, dynamic_mappings, enabled, REGEX, STATIC_RESPONSE,
                   request, matched, branch, upstream, response, proxy_built, conn_vars>>

\* ProxyConfig::try_from(&matches)?: the configuration on Ok, the error on Err
ProxyTryFrom(matches) ==
    /\ Building
    /\ \E r \in {Proxy_try_from(matches)} :
         /\ proxy_config' = IF r.ok THEN Unwrap(r.val) ELSE proxy_config
         /\ proxy_built' = [matches |-> Some(matches), error |-> r.err]
    /\ UNCHANGED <<other_vars, serde, loading, static_mappings, dynamic_mappings, enabled, REGEX, STATIC_RESPONSE,
                   request, matched, branch, upstream, response, conn_vars>>

NextProxy ==
    \/ \E use_proxy \in BOOLEAN, proxy_url \in ProxyUrls : ProxyNew(use_proxy, proxy_url)
    \/ \E val \in BOOLEAN : ProxySetUseProxy(val)
    \/ \E val \in ProxyUrls : ProxySetProxyUrl(val)
    \/ \E matches \in ArgMatches : ProxyTryFrom(matches)
    \/ \E req \in Requests : ConnRead(req)
    \/ ConnUpstreamDone
    \/ ConnSend

SpecProxy == InitProxy /\ [][NextProxy]_vars

\* Mappings::try_from on a mappings directory of at most MaxEntries
\* entries, Uuid::new_v4 drawing from Uuids.
InitLoad == InitOn({<<>>}, {{}}, LoadTrees, {"none"}) /\ Quiet

\* the callback on the next file of the walk: the file does not parse and
\* try_from returns the error
LoadParseError ==
    /\ loading.result = None
    /\ loading.pos <= Len(loading.files)
    /\ ~toml_from_slice(loading.files[loading.pos].buffer).ok
    /\ loading' = [loading EXCEPT
                      !.result = Some([ok |-> FALSE, store |-> None,
                                       err |-> Some("toml::de::Error")])]
    /\ UNCHANGED <<other_vars, serde, static_mappings, dynamic_mappings, enabled, proxy_config,
                   proxy_built, REGEX, STATIC_RESPONSE, request, matched, branch,
                   upstream, response, conn_vars>>

\* the callback on the next file of the walk: the file parses and the
\* mapping is inserted under a new identifier; an Err ends try_from, and the
\* store is dropped
LoadInsert(uuid) ==
    /\ loading.result = None
    /\ loading.pos <= Len(loading.files)
    /\ toml_from_slice(loading.files[loading.pos].buffer).ok
    /\ \E r \in {cb_insert(loading.inner, uuid,
                            Unwrap(toml_from_slice(loading.files[loading.pos].buffer).val))} :
         loading' = [loading EXCEPT
                       !.uuids = Append(@, uuid),
                       !.inner = r.inner,
                       !.pos = IF r.ok THEN @ + 1 ELSE @,
                       !.result = IF r.ok
                                  THEN None
                                  ELSE Some([ok |-> FALSE, store |-> None, err |-> r.err])]
    /\ UNCHANGED <<other_vars, serde, static_mappings, dynamic_mappings, enabled, proxy_config,
                   proxy_built, REGEX, STATIC_RESPONSE, request, matched, branch,
                   upstream, response, conn_vars>>

\* the walk is over: Ok(mappings)
LoadDone ==
    /\ loading.result = None
    /\ loading.pos > Len(loading.files)
    /\ loading' = [loading EXCEPT
                      !.result = Some([ok |-> TRUE, store |-> Some(loading.inner),
                                       err |-> None])]
    /\ UNCHANGED <<other_vars, serde, static_mappings, dynamic_mappings, enabled, proxy_config,
                   proxy_built, REGEX, STATIC_RESPONSE, request, matched, branch,
                   upstream, response, conn_vars>>

NextLoad ==
    \/ LoadParseError
    \/ \E uuid \in Uuids : LoadInsert(uuid)
    \/ LoadDone

SpecLoad == InitLoad /\ [][NextLoad]_vars

\* A config value is serialised, as JSON or as TOML, and the serialised
\* form is deserialised.
InitSerde == InitOn({<<>>}, {{}}, {<<>>}, Kinds) /\ Quiet

Serialize(format) ==
    /\ serde.doc = None
    /\ serde' = [serde EXCEPT !.format = format,
                              !.doc = Some(written(format, serialize(serde.kind, serde.value)))]
    /\ UNCHANGED <<other_vars, loading, static_mappings, dynamic_mappings, enabled, proxy_config,
                   proxy_built, REGEX, STATIC_RESPONSE, request, matched, branch,
                   upstream, response, conn_vars>>

Deserialize ==
    /\ serde.doc # None
    /\ serde.back = None
    /\ serde' = [serde EXCEPT !.back = Some(deserialize(serde.kind, Unwrap(serde.doc)))]
    /\ UNCHANGED <<other_vars, loading, static_mappings, dynamic_mappings, enabled, proxy_config,
                   proxy_built, REGEX, STATIC_RESPONSE, request, matched, branch,
                   upstream, response, conn_vars>>

NextSerde ==
    \/ \E format \in Formats : Serialize(format)
    \/ Deserialize

SpecSerde == InitSerde /\ [][NextSerde]_vars

\* load("body.txt") called on MaxThreads worker threads, at most MaxServed
\* bodies served, while the file is written on disk.
InitCache ==
    /\ InitOn({<<>>}, {{}}, {<<>>}, {"none"})
    /\ loads \in {Loads_new(content) : content \in DiskContents}
    /\ task = Task_new
    /\ order = None
    /\ server = Server_new

InFlight == {t \in Threads : loads.pc[t] # "idle"}

\* the lookup of load under the lock: a hit returns the clone of the entry
LoadGet(t) ==
    /\ loads.pc[t] = "idle"
    /\ Len(loads.served) + Cardinality(InFlight) < MaxServed
    /\ loads' = IF Cached(STATIC_RESPONSE, "body.txt")
                THEN [loads EXCEPT !.served =
                         Append(@, CachedRegex(STATIC_RESPONSE, "body.txt"))]
                ELSE [loads EXCEPT !.pc[t] = "compute"]
    /\ UNCHANGED <<handler_vars, conn_vars, later_vars>>

\* the body of load, without the lock: the walk reads the file
LoadRead(t) ==
    /\ loads.pc[t] = "compute"
    /\ loads' = [loads EXCEPT
                    !.buffer[t] = visit_dirs(DiskTree(loads.disk), "body.txt", 1).buffer,
                    !.pc[t] = "set"]
    /\ UNCHANGED <<handler_vars, conn_vars, later_vars>>

\* the result is set in the cache under the lock and returned
LoadSet(t) ==
    /\ loads.pc[t] = "set"
    /\ STATIC_RESPONSE' = cache_set(STATIC_RESPONSE, "body.txt", loads.buffer[t])
    /\ loads' = [loads EXCEPT !.served = Append(@, loads.buffer[t]),
                              !.pc[t] = "idle"]
    /\ UNCHANGED <<serde, loading, static_mappings, dynamic_mappings, enabled,
                   proxy_config, proxy_built, REGEX, request, matched, branch,
                   upstream, response, conn_vars, later_vars>>

\* the file is written on disk
DiskWrite(content) ==
    /\ content # loads.disk
    /\ loads' = [loads EXCEPT !.disk = content]
    /\ UNCHANGED <<handler_vars, conn_vars, later_vars>>

NextCache ==
    \/ \E t \in Threads : LoadGet(t)
    \/ \E t \in Threads : LoadRead(t)
    \/ \E t \in Threads : LoadSet(t)
    \/ \E content \in DiskContents : DiskWrite(content)

SpecCache == InitCache /\ [][NextCache]_vars

(***************************************************************************)
(* One connection with the upstream task of a proxied request followed     *)
(* step by step: the task is spawned detached (tokio::spawn_async), the    *)
(* timeout wraps client.request only, and the connection's task waits on   *)
(* the fold over the channel without reading the socket.                   *)
(***************************************************************************)
InitUpstream ==
    /\ InitOn(ConnStores, {exact \cup pattern}, {<<>>}, {"none"})
    /\ loads = Loads_new("hello")
    /\ task = Task_new
    /\ order = None
    /\ server = Server_new

\* the variables the steps of the upstream task leave alone
task_frame ==
    UNCHANGED <<serde, loading, static_mappings, dynamic_mappings, enabled,
                proxy_config, proxy_built, REGEX, STATIC_RESPONSE, request,
                matched, branch, conn_vars, loads, order, server>>

\* the stream half yields the next request of a connection the client holds
TaskRead(req) ==
    /\ task.open
    /\ ConnRead(req)

\* the executor runs the spawned block: the client is built and run_request
\* called, or the block panics before (connector, request builder)
UpstreamStart ==
    /\ request # None /\ branch = "proxy" /\ response = None
    /\ task.pc = "none"
    /\ task' = [task EXCEPT !.pc = IF IsSome(upstream.request)
                                   THEN "request" ELSE "panicked"]
    /\ UNCHANGED <<upstream, response>>
    /\ task_frame

\* 10 s pass after the dispatch
TimerElapses ==
    /\ task.pc \in {"request", "body"}
    /\ ~task.elapsed
    /\ task' = [task EXCEPT !.elapsed = TRUE]
    /\ UNCHANGED <<upstream, response>>
    /\ task_frame

\* tx.unbounded_send of run_request, the last step of the task
unbounded_send(res) ==
    /\ upstream' = [upstream EXCEPT !.result = Some(res)]
    /\ task' = [task EXCEPT !.pc = "sent"]
    /\ UNCHANGED response
    /\ task_frame

\* client.request(body).timeout(10 s) resolves to the timeout error
RequestTimeout ==
    /\ task.pc = "request"
    /\ task.elapsed
    /\ unbounded_send([ok |-> FALSE,
                       val |-> "Unable to process upstream response! timeout"])

\* client.request(body) resolves to an error of its own
RequestFails ==
    /\ task.pc = "request"
    /\ unbounded_send([ok |-> FALSE,
                       val |-> "Unable to process upstream response! connect error"])

\* client.request(body) resolves to the response (status and headers)
\* before the 10 s have passed; the body is read by the fold that follows
ResponseHeaders ==
    /\ task.pc = "request"
    /\ ~task.elapsed
    /\ task' = [task EXCEPT !.pc = "body"]
    /\ UNCHANGED <<upstream, response>>
    /\ task_frame

\* the fold over the body has every chunk
BodyRead ==
    /\ task.pc = "body"
    /\ unbounded_send([ok |-> TRUE, val |-> "upstream body"])

\* the fold over the body ends with an error
BodyFails ==
    /\ task.pc = "body"
    /\ unbounded_send([ok |-> FALSE, val |-> "Unable to process upstream response!"])

\* the task is over (it sent, or it panicked), tx is dropped and the
\* rx.fold of http_response resolves the response
FoldResolves ==
    /\ task.pc \in {"sent", "panicked"}
    /\ response = None
    /\ response' = Some(proxy_response(rx_fold(upstream.result)))
    /\ task' = [task EXCEPT !.pc = "resolved"]
    /\ UNCHANGED upstream
    /\ task_frame

\* send_all writes the response: to the client, or into a connection the
\* client closed, which ends the connection's task with the write error
WriteResponse ==
    /\ task.pc \in {"none", "resolved"}
    /\ IF task.open
       THEN /\ request # None
            /\ response # None
            /\ request' = None
            /\ response' = None
            /\ upstream' = [request |-> None, result |-> None]
            /\ branch' = "none"
            /\ matched' = [found |-> None, evals |-> <<>>]
            /\ sent' = Append(sent, [id |-> reads, branch |-> branch])
            /\ task' = Task_new
            /\ UNCHANGED <<serde, loading, static_mappings, dynamic_mappings,
                           enabled, proxy_config, proxy_built, REGEX,
                           STATIC_RESPONSE, reads, loads, order, server>>
       ELSE /\ response # None
            /\ task' = [task EXCEPT !.pc = "ended"]
            /\ UNCHANGED <<upstream, response>>
            /\ task_frame

\* the client closes the connection while its request is being handled
ConnClose ==
    /\ task.open
    /\ request # None
    /\ task' = [task EXCEPT !.open = FALSE, !.closed_at = task.pc]
    /\ UNCHANGED <<upstream, response>>
    /\ task_frame

NextUpstream ==
    \/ \E req \in Requests : TaskRead(req)
    \/ UpstreamStart
    \/ TimerElapses
    \/ RequestTimeout
    \/ RequestFails
    \/ ResponseHeaders
    \/ BodyRead
    \/ BodyFails
    \/ FoldResolves
    \/ WriteResponse
    \/ ConnClose

SpecUpstream == InitUpstream /\ [][NextUpstream]_vars

\* Time passes, a timeout that is due fires, and the executor runs the
\* tasks that are ready; what the upstream does is left to the upstream.
UpstreamFairness ==
    /\ WF_vars(UpstreamStart)
    /\ WF_vars(TimerElapses)
    /\ WF_vars(RequestTimeout)
    /\ WF_vars(FoldResolves)
    /\ WF_vars(WriteResponse)

SpecUpstreamLive == InitUpstream /\ [][NextUpstream]_vars /\ UpstreamFairness

(***************************************************************************)
(* The store from the mappings directory to the Handler: the files are     *)
(* inserted in the order of the walk under random keys (Uuid::new_v4), and *)
(* get_match iterates the HashMap, whose order is that of the hashes of    *)
(* the keys under the map's RandomState, not that of the insertions.       *)
(***************************************************************************)
OrderFiles ==
    {FileEntry("priority = 1\n[request]\n[response]\n"),
     FileEntry("priority = 2\n[request]\nurl = \"/a\"\n[response]\nstatus = 200\n"),
     FileEntry("priority = 2\n[request]\nmethod = \"GET\"\n[response]\nstatus = 201\n")}
OrderTrees == {t \in SeqsUpTo(OrderFiles, 2) : Len(t) = 2}

InitOrder ==
    /\ InitOn({<<>>}, {{"EXACT_URL", "EXACT_METHOD"}, exact}, OrderTrees, {"none"})
    /\ Quiet

\* the orders in which a HashMap holding the entries of inner may iterate
HashMap_iter(inner) ==
    {it \in [1..Cardinality(inner) -> {e[1] : e \in inner}] :
        \A i, j \in 1..Cardinality(inner) : it[i] = it[j] => i = j}

\* the value under a key of the store
HashMap_get(inner, k) == (CHOOSE e \in inner : e[1] = k)[2]

\* Handler::new with the store try_from returned
HandlerNew(it) ==
    /\ order = None
    /\ loading.result # None
    /\ Unwrap(loading.result).ok
    /\ static_mappings' = [i \in 1..Len(it) |-> HashMap_get(loading.inner, it[i])]
    /\ order' = Some(it)
    /\ UNCHANGED <<serde, loading, dynamic_mappings, enabled, proxy_config,
                   proxy_built, REGEX, STATIC_RESPONSE, request, matched, branch,
                   upstream, response, conn_vars, loads, task, server>>

\* respond on a request, once the server runs
OrderRespond(req) ==
    /\ order # None
    /\ ConnRead(req)

OrderSend == ConnSend

NextOrder ==
    \/ \E uuid \in Uuids : LoadInsert(uuid)
    \/ LoadDone
    \/ \E it \in HashMap_iter(loading.inner) : HandlerNew(it)
    \/ \E req \in Requests : OrderRespond(req)
    \/ OrderSend

SpecOrder == InitOrder /\ [][NextOrder]_vars

(***************************************************************************)
(* The server: the listener accepts sockets and handle spawns one task per *)
(* connection; the tasks share the Handler (cloned) and nothing else.      *)
(***************************************************************************)
InitServer ==
    /\ InitOn({<<>>}, {{}}, {<<>>}, {"none"})
    /\ loads = Loads_new("hello")
    /\ task = Task_new
    /\ order = None
    /\ server = Server_new

\* what the steps of the server leave alone
server_frame == UNCHANGED <<handler_vars, conn_vars, loads, task, order>>

\* for_each of run on the next socket: handle spawns its task and the
\* closure returns Ok(()), the listener is polled again
Accept(c) ==
    /\ server.listening
    /\ server.conns[c].state = "none"
    /\ server' = [server EXCEPT !.conns[c].state = "open"]
    /\ server_frame

\* incoming() yields an error: map_err logs it and for_each ends
AcceptError ==
    /\ server.listening
    /\ server' = [server EXCEPT !.listening = FALSE]
    /\ server_frame

\* rx yields a request of the connection and respond is called on it
ConnRequest(c) ==
    /\ server.conns[c].state = "open"
    /\ ~server.conns[c].pending
    /\ server.conns[c].answered < MaxRequests
    /\ server' = [server EXCEPT !.conns[c].pending = TRUE]
    /\ server_frame

\* the response future resolved and send_all wrote the response
ConnAnswer(c) ==
    /\ server.conns[c].state = "open"
    /\ server.conns[c].pending
    /\ server' = [server EXCEPT
                     !.conns[c].pending = FALSE,
                     !.conns[c].answered = @ + 1,
                     !.conns[c].after =
                         \E d \in Conns : server.conns[d].state = "ended"]
    /\ server_frame

\* rx yields an error (the socket, or bytes that are no request)
ConnReadError(c) ==
    /\ server.conns[c].state = "open"
    /\ ~server.conns[c].pending
    /\ server' = task_ended(server, c, "read")
    /\ server_frame

\* the response future resolves to an error, which and_then maps to an
\* io::Error
ConnRespondError(c) ==
    /\ server.conns[c].state = "open"
    /\ server.conns[c].pending
    /\ server' = task_ended(server, c, "respond")
    /\ server_frame

\* the sink fails to write the response
ConnWriteError(c) ==
    /\ server.conns[c].state = "open"
    /\ server.conns[c].pending
    /\ server' = task_ended(server, c, "write")
    /\ server_frame

NextServer ==
    \/ \E c \in Conns : Accept(c)
    \/ AcceptError
    \/ \E c \in Conns : ConnRequest(c)
    \/ \E c \in Conns : ConnAnswer(c)
    \/ \E c \in Conns : ConnReadError(c)
    \/ \E c \in Conns : ConnRespondError(c)
    \/ \E c \in Conns : ConnWriteError(c)

SpecServer == InitServer /\ [][NextServer]_vars

(***************************************************************************)
(* Properties.  They are stated on the state respond leaves behind: the    *)
(* request, the outcome of is_match on every mapping of the store          *)
(* (matched.evals), the mapping found and the response.                    *)
(***************************************************************************)
Answered == request # None /\ response # None

\* the indices of the store, and the results [flag, ok, val] the enabled
\* predicates gave for the i-th mapping
StoreIndices == 1..Len(static_mappings)
Results(i) ==
    {matched.evals[i].results[k] : k \in 1..Len(matched.evals[i].results)}
Selected == {i \in StoreIndices : matched.evals[i].selected}

\* the request-match field a predicate inspects is set
Configured(flag, request_config) ==
    CASE flag = "EXACT_URL" -> IsSome(request_config.url)
      [] flag = "PATTERN_URL" -> IsSome(request_config.url_pattern)
      [] flag = "EXACT_METHOD" -> IsSome(request_config.method)
      [] flag = "PATTERN_METHOD" -> IsSome(request_config.method_pattern)
      [] flag = "EXACT_HEADER" -> IsSome(request_config.header)
      [] flag = "PATTERN_HEADER" -> IsSome(request_config.header_pattern)
      [] flag = "EXACT_HEADERS" -> request_config.headers # <<>>
      [] flag = "PATTERN_HEADERS" -> request_config.headers # <<>>

\* a request header equals a configured header: the names without regard
\* to case (a request's header names are in lower case), the values exactly
HeaderEquals(actual, configured) ==
    /\ actual[1] = to_lowercase(configured[1])
    /\ actual[2] = configured[2]

\* C1: is_match selects a mapping if and only if at least one enabled
\* predicate is configured in its request-match and every configured one
\* evaluates to true on the request; a configured predicate that is false or
\* yields no result keeps the mapping from being selected.
C1_SelectedIffEveryConfiguredTrue ==
    Answered =>
        \A i \in StoreIndices :
            LET conf == {f \in enabled : Configured(f, static_mappings[i].request)}
            IN  matched.evals[i].selected <=>
                    /\ conf # {}
                    /\ \A f \in conf :
                           \E r \in Results(i) : r.flag = f /\ r.val = Some(TRUE)

\* C2: a mapping whose request-match has no field set is never selected by
\* is_match nor returned by get_match, whatever the request and the enabled
\* set.
C2_EmptyRequestMatchNeverReturned ==
    Answered =>
        \A i \in StoreIndices :
            static_mappings[i].request = Request_default =>
                /\ ~matched.evals[i].selected
                /\ matched.found # Some(i)

\* a request was answered from a store that holds a mapping with an empty
\* request-match next to a mapping that get_match returned
C2_Witness ==
    /\ Answered
    /\ enabled = exact \cup pattern
    /\ IsSome(matched.found)
    /\ \E i \in StoreIndices : static_mappings[i].request = Request_default

\* C3: the mapping get_match returns is a mapping of the store that matches
\* the request, and no matching mapping of the store has a lower priority.
C3_ReturnedHasMinimumPriority ==
    Answered /\ IsSome(matched.found) =>
        LET i == Unwrap(matched.found)
        IN  /\ i \in Selected
            /\ \A j \in Selected :
                   static_mappings[i].priority <= static_mappings[j].priority

\* two mappings match, the later one of the iteration has the lower
\* priority, and it is the one returned
C3_Witness ==
    /\ Answered
    /\ Selected = {1, 2}
    /\ static_mappings[2].priority < static_mappings[1].priority
    /\ matched.found = Some(2)

\* the response respond gave, and the answer of util::error_response to an
\* unmatched request
TheResponse == Unwrap(response)
NoMappingFound ==
    [status |-> 404,
     headers |-> <<<<"content-type", "application/json">>>>,
     body |-> "{\"message\":\"No mapping found\"}"]

\* C4 (as stated): when no mapping matches, the handler answers with status
\* 404, Content-Type application/json and body {"message":"No mapping found"};
\* it never answers 404 when some mapping matches.
C4_Never404WhenSomeMappingMatches ==
    Answered =>
        /\ Selected = {} => TheResponse = NoMappingFound
        /\ Selected # {} => TheResponse.status # 404

\* C4 (amended): respond takes the MappingNotFound path exactly when no
\* mapping matches; on that path get_match gave no mapping and the answer is
\* status 404, Content-Type application/json and body
\* {"message":"No mapping found"}; when some mapping matches, the answer is
\* built from the mapping found (whose own status may be 404).
C4_NotFoundPathIffNoMappingMatches ==
    Answered =>
        /\ Selected = {} <=> branch = "not_found"
        /\ Selected = {} => matched.found = None /\ TheResponse = NoMappingFound
        /\ Selected # {} => IsSome(matched.found) /\ branch \in {"static", "proxy"}

\* predicates are enabled and the store holds two mappings, none of which
\* matches the request: the 404 is given
C4_Witness ==
    /\ Answered
    /\ enabled = exact \cup pattern
    /\ Len(static_mappings) = 2
    /\ \A i \in StoreIndices : static_mappings[i].request # Request_default
    /\ branch = "not_found"
    /\ TheResponse.status = 404

\* C5: every predicate returns None exactly when the request-match field it
\* inspects is unset (the headers list empty), and Some(true) or Some(false)
\* when the field is set.
C5_NoneIffFieldUnset ==
    Answered =>
        \A i \in StoreIndices :
            \A r \in Results(i) :
                /\ r.ok
                /\ r.val = None <=> ~Configured(r.flag, static_mappings[i].request)
                /\ r.val \in {None, Some(TRUE), Some(FALSE)}

\* the number of the request's headers equal to a configured header
EqualCount(configured) ==
    Cardinality({k \in 1..Len(Unwrap(request).headers) :
                    HeaderEquals(Unwrap(request).headers[k], configured)})

\* C6: ExactMatchHeader with a configured header returns Some(true) if and
\* only if exactly one entry of the request's headers equals the configured
\* header (names without regard to case, values exactly); zero, or two or
\* more, equal entries give Some(false).
C6_ExactHeaderIffExactlyOneEqual ==
    Answered =>
        \A i \in StoreIndices :
            \A r \in Results(i) :
                r.flag = "EXACT_HEADER" /\ IsSome(static_mappings[i].request.header) =>
                    r.val = Some(EqualCount(Unwrap(static_mappings[i].request.header)) = 1)

\* the same header sent twice with the same value: two entries equal the
\* configured header and the predicate says Some(false)
C6_Witness ==
    /\ Answered
    /\ \E i \in StoreIndices :
         /\ IsSome(static_mappings[i].request.header)
         /\ EqualCount(Unwrap(static_mappings[i].request.header)) = 2
         /\ \E r \in Results(i) : r.flag = "EXACT_HEADER" /\ r.val = Some(FALSE)

\* one side of a header pattern matches a text: a literal key without
\* regard to case, a literal value exactly, a regex by the compiled regex
SideMatches(actual, either, is_key) ==
    IF IsSome(either.left)
    THEN IF is_key
         THEN to_lowercase(actual) = to_lowercase(Unwrap(either.left))
         ELSE actual = Unwrap(either.left)
    ELSE /\ IsSome(either.right)
         /\ RegexCompiles(Unwrap(either.right))
         /\ RegexIsMatch(Unwrap(either.right),
                         IF is_key THEN to_lowercase(actual) ELSE actual)

\* the request's headers that match both sides of a header pattern
BothSidesMatch(header_pattern) ==
    {k \in 1..Len(Unwrap(request).headers) :
        /\ SideMatches(Unwrap(request).headers[k][1], header_pattern.key, TRUE)
        /\ SideMatches(Unwrap(request).headers[k][2], header_pattern.value, FALSE)}

\* C7: PatternMatchHeader with a configured header_pattern returns
\* Some(true) if and only if exactly one request header matches both sides
\* of the pattern (literal key without regard to case, literal value with
\* regard to case, a regex side by the compiled regex on the lower-case key
\* or on the value).
C7_PatternHeaderIffExactlyOneMatches ==
    Answered =>
        \A i \in StoreIndices :
            \A r \in Results(i) :
                r.flag = "PATTERN_HEADER"
                /\ IsSome(static_mappings[i].request.header_pattern) =>
                    r.val = Some(Cardinality(BothSidesMatch(
                                Unwrap(static_mappings[i].request.header_pattern))) = 1)

\* of two request headers exactly one matches a pattern whose key is a
\* literal written in upper case, and the predicate says Some(true)
C7_Witness ==
    /\ Answered
    /\ Len(Unwrap(request).headers) = 2
    /\ \E i \in StoreIndices :
         /\ IsSome(static_mappings[i].request.header_pattern)
         /\ Unwrap(static_mappings[i].request.header_pattern).key = Left("X-A")
         /\ Cardinality(BothSidesMatch(
                Unwrap(static_mappings[i].request.header_pattern))) = 1
         /\ \E r \in Results(i) : r.flag = "PATTERN_HEADER" /\ r.val = Some(TRUE)

\* C8: ExactMatchHeaders with a non-empty headers list returns Some(true) if
\* and only if every configured header equals at least one header of the
\* request; a configured header that no request header equals (one that is
\* no valid HTTP header included) makes the result Some(false).
C8_ExactHeadersIffEveryConfiguredEqualsSome ==
    Answered =>
        \A i \in StoreIndices :
            \A r \in Results(i) :
                r.flag = "EXACT_HEADERS" /\ static_mappings[i].request.headers # <<>> =>
                    r.val = Some(\A k \in 1..Len(static_mappings[i].request.headers) :
                                    EqualCount(static_mappings[i].request.headers[k]) >= 1)

\* every header a mapping constrains has, in the request, a value its
\* pattern matches (the configured value read as a regex)
EveryHeaderValueMatches(request_config) ==
    /\ request_config.headers # <<>>
    /\ \A k \in 1..Len(request_config.headers) :
           \E h \in 1..Len(Unwrap(request).headers) :
               /\ Unwrap(request).headers[h][1] = to_lowercase(request_config.headers[k][1])
               /\ RegexIsMatch(request_config.headers[k][2], Unwrap(request).headers[h][2])

\* C9: with only PATTERN_HEADERS enabled, get_match returns a mapping that
\* constrains several headers by pattern exactly for the requests in which
\* every constrained header has a value its pattern matches: it returns such
\* a mapping when all header values match and fails when one does not.
C9_PatternHeadersReturnedIffAllValuesMatch ==
    Answered /\ enabled = {"PATTERN_HEADERS"} =>
        /\ IsSome(matched.found) <=>
               \E i \in StoreIndices : EveryHeaderValueMatches(static_mappings[i].request)
        /\ IsSome(matched.found) =>
               EveryHeaderValueMatches(static_mappings[Unwrap(matched.found)].request)

\* the response config of the mapping found, its configured headers, and
\* whether each of them is a valid HTTP header
FoundResponse == static_mappings[Unwrap(matched.found)].response
ConfiguredHeaders ==
    IF IsSome(FoundResponse.headers) THEN Unwrap(FoundResponse.headers) ELSE <<>>
ConfiguredHeadersValid ==
    \A k \in 1..Len(ConfiguredHeaders) :
        ValidHeaderName(ConfiguredHeaders[k][1]) /\ ValidHeaderValue(ConfiguredHeaders[k][2])

\* the response carries the configured headers, in order, the names as HTTP
\* header names (lower case) and the values unchanged
CarriesConfiguredHeaders ==
    TheResponse.headers =
        [k \in 1..Len(ConfiguredHeaders) |->
            <<to_lowercase(ConfiguredHeaders[k][1]), ConfiguredHeaders[k][2]>>]

BodyFileMissing ==
    /\ IsSome(FoundResponse.body_file_name)
    /\ \A k \in 1..Len(FilesTree) : FilesTree[k][1] # Unwrap(FoundResponse.body_file_name)

\* the status of a static response: the configured one when it is a valid
\* status code, 500 when it is not, 200 when none is configured
StatusAsConfigured ==
    IF FoundResponse.status = None THEN 200
    ELSE IF ValidStatusCode(Unwrap(FoundResponse.status))
         THEN Unwrap(FoundResponse.status)
         ELSE 500

BuildFails ==
    \/ IsSome(FoundResponse.status) /\ ~ValidStatusCode(Unwrap(FoundResponse.status))
    \/ ~ConfiguredHeadersValid

\* the error texts of the http crate for a status, a header name and a
\* header value that are not valid, and a JSON body {"message": <error text>}
ErrorTexts ==
    {"invalid status code", "invalid HTTP header name", "failed to parse header value"}
IsErrorJson(body) ==
    \E e \in ErrorTexts : body = "{\"message\":\"" \o e \o "\"}"

\* C12: whenever building a static response fails (the configured status is
\* not a valid status code, or a configured header is not a valid header),
\* the request is answered with status 500 and a JSON body
\* {"message": <error text>}, and the configured file body is not sent.
C12_BuildFailureGives500Json ==
    Answered /\ branch = "static" /\ BuildFails =>
        /\ TheResponse.status = 500
        /\ TheResponse.headers = <<<<"content-type", "application/json">>>>
        /\ IsErrorJson(TheResponse.body)

\* the request being handled has a winning mapping, and its response config
Won == request # None /\ IsSome(matched.found)
Proxied == IsSome(FoundResponse.proxy_base_url)
AdditionalHeaders ==
    IF IsSome(FoundResponse.additional_proxy_request_headers)
    THEN Unwrap(FoundResponse.additional_proxy_request_headers)
    ELSE <<>>

\* the incoming request URI as text: the path, then ? and the query if any
IncomingUri ==
    LET uri == Unwrap(request).uri
    IN  IF IsSome(uri.query) THEN uri.path \o "?" \o Unwrap(uri.query) ELSE uri.path

\* the upstream request is a GET of proxy_base_url followed by the incoming
\* URI that carries every additional header, in order
DispatchedAsConfigured ==
    /\ IsSome(upstream.request)
    /\ Unwrap(upstream.request).method = "GET"
    /\ Unwrap(upstream.request).url = Unwrap(FoundResponse.proxy_base_url) \o IncomingUri
    /\ Len(Unwrap(upstream.request).headers) = Len(AdditionalHeaders)
    /\ \A k \in 1..Len(AdditionalHeaders) :
           Unwrap(upstream.request).headers[k] =
               <<to_lowercase(AdditionalHeaders[k][1]), AdditionalHeaders[k][2]>>

\* C13: for every winning mapping the response comes from the proxy
\* forwarder exactly when proxy_base_url is set; then one upstream request is
\* dispatched, a GET of proxy_base_url followed by the incoming URI that
\* carries every additional_proxy_request_headers entry, and no static
\* response is built; when proxy_base_url is unset no upstream request is
\* made.
C13_ProxiedIffBaseUrlSet ==
    Won =>
        /\ (branch = "proxy") = Proxied
        /\ Proxied => DispatchedAsConfigured /\ branch # "static"
        /\ ~Proxied => upstream.request = None /\ branch = "static"

\* the same, for additional headers that are valid HTTP headers: reached
\* by a POST that is forwarded as a GET
AdditionalHeadersValid ==
    \A k \in 1..Len(AdditionalHeaders) :
        ValidHeaderName(AdditionalHeaders[k][1]) /\ ValidHeaderValue(AdditionalHeaders[k][2])
C13_ProxiedValidDispatched ==
    Won /\ Proxied /\ AdditionalHeadersValid => DispatchedAsConfigured
C13_Witness ==
    /\ Won /\ Proxied /\ DispatchedAsConfigured
    /\ Unwrap(request).method = "POST"
    /\ IsSome(Unwrap(request).uri.query)
    /\ Len(AdditionalHeaders) > 0

\* the upstream request of the proxied request being handled failed: it was
\* dispatched and run_request sent an Err on the channel
UpstreamFailed ==
    /\ request # None /\ branch = "proxy"
    /\ IsSome(upstream.request)
    /\ IsSome(upstream.result) /\ ~Unwrap(upstream.result).ok
UpstreamErrorTexts ==
    {"Unable to process upstream response!",
     "Unable to process upstream response! connect error",
     "Unable to process upstream response! timeout"}

\* C14: when the upstream request of a proxied mapping fails (connect error,
\* timeout, error while reading the body), the client still gets one
\* response with status 200 whose body is the text describing the error;
\* the response is never missing: while it is pending, the upstream task
\* can end and resolve it, and once the failure is on the channel the
\* response is resolved.
C14_UpstreamFailureGives200WithErrorText ==
    /\ UpstreamFailed =>
           /\ response # None
           /\ TheResponse.status = 200
           /\ TheResponse.body = Unwrap(upstream.result).val
           /\ TheResponse.body \in UpstreamErrorTexts
    /\ request # None /\ branch = "proxy" /\ response = None => ENABLED UpstreamDone
C14_Witness ==
    /\ UpstreamFailed
    /\ TheResponse.status = 200
    /\ TheResponse.body = "Unable to process upstream response! timeout"

\* C15: on one connection the responses are written in the order in which
\* their requests were read: the k-th response written answers the k-th
\* request read, also when an earlier request is a proxied one whose
\* response is pending and a later one has a static response.
C15_ResponsesInRequestOrder ==
    /\ \A k \in 1..Len(sent) : sent[k].id = k
    /\ reads \in {Len(sent), Len(sent) + 1}
    /\ reads = Len(sent) + 1 <=> request # None
C15_Witness ==
    /\ Len(sent) >= 2
    /\ sent[1].branch = "proxy"
    /\ sent[2].branch = "static"

\* C16: every Proxy config that reaches the request handler satisfies
\* use_proxy => proxy_url is present: Proxy::try_from on matches with the
\* proxy flag and no proxy URL fails with InvalidProxyConfig, and no
\* constructor or setter (default, new, set_use_proxy, set_proxy_url) yields
\* use_proxy true with proxy_url absent.
C16_UseProxyImpliesProxyUrl ==
    /\ proxy_config.use_proxy => IsSome(proxy_config.proxy_url)
    /\ IsSome(proxy_built.matches)
       /\ Unwrap(proxy_built.matches).proxy
       /\ ~IsSome(Unwrap(proxy_built.matches).proxy_url)
           => proxy_built.error = Some("InvalidProxyConfig")

\* such a configuration is used by the handler for a proxied mapping: the
\* upstream task ends without a request
C16_HandlerUsesProxyWithoutUrl ==
    /\ request # None /\ branch = "proxy"
    /\ proxy_config.use_proxy /\ ~IsSome(proxy_config.proxy_url)
    /\ upstream.request = None

\* the regular files of a directory tree, counted, and as a set of places
\* <<i>> (a file of the directory) or <<i, j>> (a file of its i-th entry)
RECURSIVE CountFiles(_)
CountFiles(entries) ==
    IF entries = <<>>
    THEN 0
    ELSE (IF Head(entries).dir THEN CountFiles(Head(entries).entries) ELSE 1)
         + CountFiles(Tail(entries))
TreeBuffers ==
    {loading.tree[i].buffer : i \in {k \in 1..Len(loading.tree) : ~loading.tree[k].dir}}
    \cup UNION {{loading.tree[i].entries[j].buffer : j \in 1..Len(loading.tree[i].entries)} :
                  i \in {k \in 1..Len(loading.tree) : loading.tree[k].dir}}
Loaded == Unwrap(loading.result)
LastUuidCollides ==
    /\ loading.uuids # <<>>
    /\ \E k \in 1..(Len(loading.uuids) - 1) :
           loading.uuids[k] = loading.uuids[Len(loading.uuids)]

\* C17: loading the mappings directory is all-or-nothing: it returns a store
\* with exactly one entry per regular file of the recursive walk, each under
\* a distinct identifier, or it fails and returns no store: with
\* MappingKeyCollision when the identifier just generated is already in the
\* store, with the parse error when a file is malformed.
C17_LoadAllOrNothing ==
    /\ loading.result # None /\ Loaded.ok =>
          /\ IsSome(Loaded.store)
          /\ Cardinality(Unwrap(Loaded.store)) = CountFiles(loading.tree)
          /\ \A e, f \in Unwrap(Loaded.store) : e[1] = f[1] => e = f
          /\ \A buffer \in TreeBuffers :
                 /\ toml_from_slice(buffer).ok
                 /\ \E e \in Unwrap(Loaded.store) :
                        e[2] = Unwrap(toml_from_slice(buffer).val)
    /\ loading.result # None /\ ~Loaded.ok =>
          /\ Loaded.store = None
          /\ Loaded.err \in {Some("MappingKeyCollision"), Some("toml::de::Error")}
          /\ (Loaded.err = Some("MappingKeyCollision")) = LastUuidCollides
          /\ (Loaded.err = Some("toml::de::Error")) =
                 ~toml_from_slice(loading.files[loading.pos].buffer).ok
    /\ loading.result = None =>
          /\ \A k \in 1..(loading.pos - 1) : toml_from_slice(loading.files[k].buffer).ok
          /\ Cardinality(loading.inner) = loading.pos - 1
\* a collision on the file of a subdirectory, after a file was stored
C17_Witness ==
    /\ loading.result # None
    /\ Loaded.err = Some("MappingKeyCollision")
    /\ Len(loading.uuids) = 3
    /\ \E i \in 1..Len(loading.tree) : loading.tree[i].dir
\* a store of three files, one of them in a subdirectory
C17_WitnessLoaded ==
    /\ loading.result # None
    /\ Loaded.ok
    /\ Cardinality(Unwrap(Loaded.store)) = 3

\* the keys of the fields of a document
Keys(doc) == {doc.items[i].s : i \in 1..Len(doc.items)}
OptionalFields ==
    CASE serde.kind = "Request" ->
           {k \in {"method", "method_pattern", "url", "url_pattern", "header",
                   "header_pattern"} : serde.value[k] = None}
           \cup {k \in {"headers"} : serde.value[k] = <<>>}
      [] serde.kind = "Response" ->
           {k \in {"status", "headers", "body_file_name", "proxy_base_url",
                   "additional_proxy_request_headers"} : serde.value[k] = None}
      [] OTHER -> {}

\* C18: for every Header, HeaderPattern, Request, Response and Mapping
\* value, deserialising the serialised value gives back a value equal to the
\* original; unset optional fields and an empty headers list of a request
\* are left out of the serialised form, and the empty Mapping is serialised
\* as {"priority":0,"request":{},"response":{}}.
C18_DeserializeSerializedIsOriginal ==
    /\ serde.back # None =>
          /\ Unwrap(serde.back).ok
          /\ Unwrap(Unwrap(serde.back).val) = serde.value
    /\ serde.doc # None =>
          /\ Keys(Unwrap(serde.doc)) \cap OptionalFields = {}
          /\ serde.kind = "Mapping" /\ serde.format = "json"
             /\ serde.value = Mapping("", 0, Request_default, Response_default)
                => Unwrap(serde.doc) = Obj(<<Field("priority", Num(0)),
                                             Field("request", Obj(<<>>)),
                                             Field("response", Obj(<<>>))>>)
\* a request with a header pattern and no headers read back from TOML
C18_Witness ==
    /\ serde.kind = "Request"
    /\ serde.format = "toml"
    /\ serde.back # None
    /\ Unwrap(serde.back).ok
    /\ Unwrap(Unwrap(serde.back).val) = serde.value
    /\ serde.value.headers = <<>>
    /\ IsSome(serde.value.header_pattern)
    /\ "headers" \notin Keys(Unwrap(serde.doc))

\* C19: ExactMatchMethod compares the request method with the configured
\* method case-sensitively: a GET request matches configured "GET" and does
\* not match configured "get", and a mapping configured with method "get" is
\* not selected for a GET request when the method predicate is enabled.
C19_ExactMethodCaseSensitive ==
    request # None =>
        \A i \in StoreIndices :
            \A r \in Results(i) :
                r.flag = "EXACT_METHOD" /\ Unwrap(request).method = "GET" =>
                    /\ static_mappings[i].request.method = Some("GET") => r.val = Some(TRUE)
                    /\ static_mappings[i].request.method = Some("get") =>
                           /\ r.val = Some(FALSE)
                           /\ ~matched.evals[i].selected
                           /\ matched.found # Some(i)
\* a GET request on a store that holds a mapping with method "GET", which is
\* selected, and one with method "get", which is not
C19_Witness ==
    /\ request # None
    /\ Unwrap(request).method = "GET"
    /\ enabled = {"EXACT_METHOD"}
    /\ \E i, j \in StoreIndices :
         /\ static_mappings[i].request.method = Some("GET")
         /\ static_mappings[j].request.method = Some("get")
         /\ matched.evals[i].selected
         /\ ~matched.evals[j].selected
         /\ [flag |-> "EXACT_METHOD", ok |-> TRUE, val |-> Some(FALSE)] \in Results(j)

\* C20: after any sequence of earlier matcher calls, the regex a regex cache
\* hands back for pattern source R is the regex compiled from R, so
\* PatternMatchUrl returns Some(true) exactly when the url_pattern of the
\* mapping matches the path of the current request; two mappings with
\* different url_pattern values evaluated against the same path each get the
\* verdict of their own pattern.
C20_PatternUrlVerdictOfOwnPattern ==
    request # None =>
        \A i \in StoreIndices :
            \A r \in Results(i) :
                /\ r.flag = "PATTERN_URL"
                /\ IsSome(static_mappings[i].request.url_pattern)
                /\ RegexCompiles(Unwrap(static_mappings[i].request.url_pattern))
                => r.val = Some(RegexIsMatch(Unwrap(static_mappings[i].request.url_pattern),
                                             Unwrap(request).uri.path))

\* the content of the first file of the walk of the files root whose base
\* name is F
FirstFileNamed(F) ==
    FilesTree[CHOOSE k \in 1..Len(FilesTree) :
                 /\ FilesTree[k][1] = F
                 /\ \A j \in 1..(k - 1) : FilesTree[j][1] # F][2]
FilesNamed(F) == {k \in 1..Len(FilesTree) : FilesTree[k][1] = F}

\* C21: the body of a static response with body_file_name F is the content
\* of exactly one file, the first regular file of the recursive walk of the
\* files root whose base name is F; when several files share the base name
\* the body holds nothing from the others.
C21_BodyIsFirstFileNamed ==
    /\ Answered /\ branch = "static" /\ IsSome(matched.found)
    /\ IsSome(FoundResponse.body_file_name)
    /\ ~BodyFileMissing
    /\ ~BuildFails
    => TheResponse.body = FirstFileNamed(Unwrap(FoundResponse.body_file_name))

\* C22: once a body has been served for a body file name, every later
\* request resolved to it is served the identical content, under every
\* interleaving of concurrent requests and of changes to the file on disk:
\* a cache entry, once inserted, is never replaced by different content.
C22_ServedContentNeverChanges ==
    \A i, j \in 1..Len(loads.served) : loads.served[i] = loads.served[j]
\* an entry of the cache stays as it is: stated on steps
C22_CacheEntryNeverReplaced ==
    [][\A e \in STATIC_RESPONSE : e \in STATIC_RESPONSE']_vars

\* the regex sources of a header pattern, and a header pattern with a
\* source that does not compile
PatternSources(hp) ==
    {Unwrap(e.right) : e \in {x \in {hp.key, hp.value} : IsSome(x.right)}}
BadUrlPattern(i) ==
    /\ IsSome(static_mappings[i].request.url_pattern)
    /\ ~RegexCompiles(Unwrap(static_mappings[i].request.url_pattern))
BadHeaderPattern(i) ==
    /\ IsSome(static_mappings[i].request.header_pattern)
    /\ \E p \in PatternSources(Unwrap(static_mappings[i].request.header_pattern)) :
           ~RegexCompiles(p)

\* C23: a url_pattern or header_pattern regex source that fails to compile
\* makes its predicate return Some(false) on every request, so a mapping
\* carrying it is never selected, and evaluating it never raises an error.
C23_BadPatternGivesSomeFalse ==
    request # None =>
        \A i \in StoreIndices :
            \A r \in Results(i) :
                \/ r.flag = "PATTERN_URL" /\ BadUrlPattern(i)
                \/ r.flag = "PATTERN_HEADER" /\ BadHeaderPattern(i)
                => /\ r.ok
                   /\ r.val = Some(FALSE)
                   /\ ~matched.evals[i].selected
\* the part of C23 on header patterns
C23_BadHeaderPatternGivesSomeFalse ==
    request # None =>
        \A i \in StoreIndices :
            \A r \in Results(i) :
                r.flag = "PATTERN_HEADER" /\ BadHeaderPattern(i)
                => /\ r.ok
                   /\ r.val = Some(FALSE)
                   /\ ~matched.evals[i].selected

\* C24: a regex source that failed to compile is compiled at most once: the
\* failure is stored in the regex cache under that pattern, so after a
\* request on which the pattern was compiled the cache holds an entry for it.
C24_CompileFailureIsCached ==
    request # None =>
        \A i \in StoreIndices :
            /\ "PATTERN_URL" \in enabled /\ BadUrlPattern(i)
               => \E e \in REGEX.url :
                      e[1] = Unwrap(static_mappings[i].request.url_pattern)
            /\ "PATTERN_HEADER" \in enabled /\ BadHeaderPattern(i)
               /\ \E k \in 1..Len(Unwrap(request).headers) :
                      Unwrap(request).headers[k][1] = "x-a"
               => \E e \in REGEX.header : ~RegexCompiles(e[1])
\* C25: every proxied request eventually produces a response once the
\* upstream timeout has elapsed: whether the upstream never answers or
\* answers with headers and then stalls in the body, the timeout ends the
\* upstream request and the response is resolved.
C25_ProxiedAnsweredAfterTimeout ==
    (task.open /\ task.pc \in {"request", "body"} /\ task.elapsed)
        ~> (response # None \/ ~task.open)
\* the part of C25 on an upstream that never answers: the request that is
\* still without a response when the 10 s have passed is answered
C25_UnansweredRequestAnsweredAfterTimeout ==
    (task.open /\ task.pc = "request" /\ task.elapsed)
        ~> (response # None \/ ~task.open)

\* C27: when the connection closes while its proxied request is in flight,
\* the upstream work is cancelled: after the close the upstream task does
\* not go on and does not deliver a result.
C27_UpstreamCancelledOnClose ==
    (~task.open /\ task.closed_at \in {"request", "body"})
        => /\ task.pc = task.closed_at
           /\ upstream.result = None

\* C26: every request gets one response, and it is a matched mapping's
\* response, the 404 of no match, a 500 of a response that could not be
\* built, or a 200 whose body is the upstream body or an upstream error
\* text; no per-request condition (failure to build the upstream request,
\* a proxy that cannot be set up) aborts the task handling it or leaves the
\* request answered with something else.
C26_ResponseOfListedKind ==
    Answered =>
        \/ branch = "not_found" /\ TheResponse.status = 404
        \/ branch = "static"
        \/ /\ branch = "proxy"
           /\ IsSome(upstream.request)
           /\ TheResponse.status = 200
           /\ TheResponse.body \in {"upstream body"} \cup UpstreamErrorTexts

\* the position at which the i-th mapping of the iteration was inserted
\* when the directory was loaded
LoadPosition(i) ==
    CHOOSE k \in 1..Len(loading.uuids) : loading.uuids[k] = Unwrap(order)[i]

\* C28: get_match evaluates the mappings in the order in which they were
\* inserted at load time: of the selected mappings that share the minimum
\* priority the one loaded first is returned.
C28_FirstLoadedOfTiesReturned ==
    (order # None /\ request # None /\ IsSome(matched.found)) =>
        \A j \in StoreIndices :
            /\ matched.evals[j].selected
            /\ static_mappings[j].priority
                   = static_mappings[Unwrap(matched.found)].priority
            => LoadPosition(Unwrap(matched.found)) <= LoadPosition(j)
\* what holds of the code: of the ties the first of the iteration is returned
C28_FirstIteratedOfTiesReturned ==
    (order # None /\ request # None /\ IsSome(matched.found)) =>
        \A j \in StoreIndices :
            /\ matched.evals[j].selected
            /\ static_mappings[j].priority
                   = static_mappings[Unwrap(matched.found)].priority
            => Unwrap(matched.found) <= j

\* a step in which the task of connection c ends
Ends(c) == server.conns[c].state = "open" /\ server'.conns[c].state = "ended"

\* C29: a failure on one connection (read error, write error, a request
\* whose handling fails) ends only that connection's task: the listener is
\* left as it was, every other connection is left as it was, and on every
\* open connection the next request can be read and a pending one answered.
C29_FailureEndsOnlyItsConnection ==
    /\ [][\A c \in Conns :
            Ends(c) => /\ server'.listening = server.listening
                       /\ \A d \in Conns \ {c} : server'.conns[d] = server.conns[d]]_vars
    /\ [](\A d \in Conns :
            server.conns[d].state = "open" =>
                IF server.conns[d].pending
                THEN ENABLED ConnAnswer(d)
                ELSE server.conns[d].answered < MaxRequests => ENABLED ConnRequest(d))
\* a connection was answered after another one had ended, with the listener
\* still accepting
C29_Witness ==
    /\ server.listening
    /\ \E c, d \in Conns :
         /\ server.conns[c].state = "ended"
         /\ server.conns[d].state = "open"
         /\ server.conns[d].after

\* the results of the i-th mapping that count: Ok and Some
Counted(i) == {r \in Results(i) : r.ok /\ IsSome(r.val)}

\* C30: only the predicates whose flag is in the Enabled set take part in
\* selection: each mapping has one result per enabled flag and none for any
\* other, it is selected exactly when some enabled predicate gave a verdict
\* and every verdict is true (so with EXACT_URL alone a mapping with method
\* and url configured is selected on its url), and a mapping whose
\* configured fields all belong to disabled predicates is never selected.
C30_OnlyEnabledPredicatesSelect ==
    request # None =>
        \A i \in StoreIndices :
            /\ {r.flag : r \in Results(i)} = enabled
            /\ matched.evals[i].selected
                   = (Counted(i) # {} /\ \A r \in Counted(i) : Unwrap(r.val))
            /\ enabled = {"EXACT_URL"}
                   => matched.evals[i].selected
                          = (\E r \in Results(i) : r.val = Some(TRUE))
            /\ (\A flag \in enabled : ~Configured(flag, static_mappings[i].request))
                   => ~matched.evals[i].selected
\* a mapping is selected although a field it configures, whose predicate is
\* not enabled, does not match the request; and a mapping that configures
\* fields, none for an enabled predicate, was evaluated
C30_Witness ==
    /\ request # None
    /\ \E i \in StoreIndices :
         /\ matched.evals[i].selected
         /\ \E flag \in Flags \ enabled :
              RequestMatch_is_match(flag, Unwrap(request), static_mappings[i].request,
                                    EmptyCaches).val = Some(FALSE)
\* the case of C30 of a mapping left out: its configured fields all belong
\* to disabled predicates, one of which would match the request
C30_WitnessDisabledOnly ==
    /\ request # None
    /\ \E i \in StoreIndices :
         /\ \A flag \in enabled : ~Configured(flag, static_mappings[i].request)
         /\ enabled # {}
         /\ \E flag \in Flags \ enabled :
              RequestMatch_is_match(flag, Unwrap(request), static_mappings[i].request,
                                    EmptyCaches).val = Some(TRUE)

====
